---- MODULE Spec2Model ----
(***************************************************************************)
(* Durable job queue (SQLiteQueue), liveness Scheduler, execution Worker   *)
(* and on-demand trigger of content-creator-agent.                         *)
(*                                                                         *)
(* Time is counted in seconds.  The jobs table is a set of rows; every SQL *)
(* statement is one atomic step, except Dequeue, whose transaction is two  *)
(* steps (the SELECT, then the UPDATE with its COMMIT) under SQLite's      *)
(* rollback-journal locking: a transaction that has read holds SHARED, and *)
(* a write commits only when every other SHARED lock is released.          *)
(* Every store call may also fail with an error and no effect.             *)
(***************************************************************************)
EXTENDS Integers, FiniteSets, Sequences, TLC

\* ---------------------------------------------------------------- bounds
MaxJobs == 2
MaxTime == 300
MaxRetryTime == 1200
MaxPosts == 2
MaxTicks == 3

Workers   == {"w1", "w2"}
MainWorkers == {"w1"}
Brands    == {"T1", "T2"}
JobBrands == Brands \cup {"T9"}
PostIds   == {"sp1"}
TimeSteps == {300}

\* ------------------------------------------------------- program constants
JobTypeRun     == "run"
JobTypeSync    == "sync"
JobTypePlan    == "plan"
JobTypePublish == "publish"
JobTypes       == {JobTypeRun, JobTypeSync, JobTypePlan, JobTypePublish}

StatusPending   == "pending"
StatusRunning   == "running"
StatusCompleted == "completed"
StatusFailed    == "failed"

PostApproved  == "approved"
PostScheduled == "scheduled"
PostPublished == "published"

RetryBackoff         == 300
MaxRetries           == 3
DefaultIntervalHours == 4
SecondsPerHour       == 3600
CatchUpDelay         == 10
WarmUpDelay          == 60

ErrNone     == ""
ErrFactory  == "brand not found"
ErrOp       == "operation failed"
ErrNotFound == "scheduled post not found"

\* ------------------------------------------------------------------ state
VARIABLES
    now,        \* time.Now(), seconds
    jobs,       \* rows of the jobs table
    nextId,     \* AUTOINCREMENT: the id the next INSERT gets
    wpc,        \* per Worker: "idle" | "selected" | "claimed" | "stopped"
    wjob,       \* per Worker: the Job value its Dequeue read / returned
    spc,        \* Scheduler: "idle" | "sync" | "enqueue" | "posts" | "flip"
    sTodo,      \* brands SyncAllBrands still has to visit in this pass
    sCur,       \* EnsureScheduled in progress: brand and delay
    sPosts,     \* posts CheckScheduledPosts still has to visit in this pass
    sPost,      \* post whose Publish job was enqueued and whose flip is due
    sErr,       \* a store call of the SyncAllBrands of this pass returned an error
    posts,      \* scheduled_posts table: id -> [brandID, status, scheduledAt]
    history,    \* posts table per brand: creation time of the newest post
    execs,      \* per job id: operations the Worker dispatched for the row
    published,  \* per scheduled post: successful Social.Post calls, 0, 1 or 2
                \* (2 stands for two or more)
    triggers,   \* on-demand trigger requests in flight: <<brand, job type>>
    brands,     \* ids of the rows of the brands table
    ackArg,     \* jobID of the last direct call of Ack (0: none yet)
    call,       \* the last direct call of a queue method: arguments and result
    quit        \* the shutdown signal was raised (ctx.Done() or Worker.Quit)

vars == <<now, jobs, nextId, wpc, wjob, spc, sTodo, sCur, sPosts, sPost, sErr,
          posts, history, execs, published, triggers, brands, ackArg,
          call, quit>>

queueVars   == <<jobs, nextId>>
workerVars  == <<wpc, wjob>>
schedVars   == <<spc, sTodo, sCur, sPosts, sPost, sErr>>
contentVars == <<posts, history, brands>>
ghostVars   == <<execs, published>>
envVars     == <<triggers, ackArg, call, quit>>

NoJob == [id |-> 0, brandID |-> "", type |-> "", status |-> "", retries |-> 0,
          nextRunAt |-> 0, payload |-> "", error |-> ErrNone]

NoCur == [brand |-> "", delay |-> 0]

NoCall == [op |-> "", id |-> 0, msg |-> "", retry |-> FALSE, brand |-> "",
           type |-> "", delay |-> 0, payload |-> "", result |-> FALSE]

\* brands.schedule_interval_hours of each known tenant
IntervalHours(b) == IF b = "T1" THEN 0 ELSE 1

\* scheduled_posts.brand_id of each scheduled post
PostBrand(p) == "T1"

\* ------------------------------------------------------ SQLiteQueue (rows)
Ids(rows) == {j.id : j \in rows}

Row(rows, jobID) == CHOOSE j \in rows : j.id = jobID

\* the INSERT into a table whose id is INTEGER PRIMARY KEY without
\* AUTOINCREMENT: the new id is the largest stored id plus one
EnqueueMaxRowid(rows, newId, brandID, jobType, delay, payload, t) ==
    rows \cup {[id |-> IF rows = {} THEN 1
                       ELSE 1 + CHOOSE m \in Ids(rows) : \A i \in Ids(rows) : i <= m,
                brandID |-> brandID, type |-> jobType,
                status |-> StatusPending, retries |-> 0,
                nextRunAt |-> t + delay, payload |-> payload,
                error |-> ErrNone]}

\* an INSERT OR REPLACE keyed by tenant and job type
EnqueueReplacing(rows, newId, brandID, jobType, delay, payload, t) ==
    {j \in rows : ~(j.brandID = brandID /\ j.type = jobType)}
    \cup {[id |-> newId, brandID |-> brandID, type |-> jobType,
            status |-> StatusPending, retries |-> 0,
            nextRunAt |-> t + delay, payload |-> payload,
            error |-> ErrNone]}

\* INSERT INTO jobs (brand_id, type, status, next_run_at, payload)
Enqueue(rows, newId, brandID, jobType, delay, payload, t) ==
    rows \cup {[id |-> newId, brandID |-> brandID, type |-> jobType,
                status |-> StatusPending, retries |-> 0,
                nextRunAt |-> t + delay, payload |-> payload,
                error |-> ErrNone]}

\* the WHERE clause without its status filter on running rows
DuePendingOrRunning(rows, t) ==
    {j \in rows : j.status \in {StatusPending, StatusRunning} /\ j.nextRunAt <= t}

\* the WHERE clause without its status filter on failed rows
DuePendingOrFailed(rows, t) ==
    {j \in rows : j.status \in {StatusPending, StatusFailed} /\ j.nextRunAt <= t}

\* the WHERE clause without next_run_at <= now
PendingAnyTime(rows, t) ==
    {j \in rows : j.status = StatusPending}

\* the WHERE clause with next_run_at < now
DuePendingBefore(rows, t) ==
    {j \in rows : j.status = StatusPending /\ j.nextRunAt < t}

\* WHERE status = 'pending' AND next_run_at <= now
DuePending(rows, t) ==
    {j \in rows : j.status = StatusPending /\ j.nextRunAt <= t}

\* LIMIT 1 without the ORDER BY
SelectAnyDue(rows, t) == DuePending(rows, t)

\* ORDER BY next_run_at ASC LIMIT 1: the rows the SELECT may return
SelectOldestDue(rows, t) ==
    {j \in DuePending(rows, t) :
        \A o \in DuePending(rows, t) : j.nextRunAt <= o.nextRunAt}

\* the UPDATE of the claim with retries = retries + 1
MarkRunningCounting(rows, jobID) ==
    {IF j.id = jobID
     THEN [j EXCEPT !.status = StatusRunning, !.retries = j.retries + 1]
     ELSE j : j \in rows}

\* UPDATE jobs SET status = 'running' WHERE id = ?
MarkRunning(rows, jobID) ==
    {IF j.id = jobID THEN [j EXCEPT !.status = StatusRunning] ELSE j : j \in rows}

\* DELETE FROM jobs WHERE id <= ?
AckUpTo(rows, jobID) == {j \in rows : j.id > jobID}

\* DELETE FROM jobs WHERE id = ?
Ack(rows, jobID) == {j \in rows : j.id # jobID}

\* the permanent branch with retries = retries + 1 and next_run_at = now
FailAlwaysCounts(rows, jobID, errMsg, retry, t) ==
    IF retry
    THEN {IF j.id = jobID
          THEN [j EXCEPT !.status = StatusPending, !.retries = j.retries + 1,
                         !.nextRunAt = t + RetryBackoff, !.error = errMsg]
          ELSE j : j \in rows}
    ELSE {IF j.id = jobID
          THEN [j EXCEPT !.status = StatusFailed, !.retries = j.retries + 1,
                         !.nextRunAt = t, !.error = errMsg]
          ELSE j : j \in rows}

\* the retry branch with next_run_at = now
FailNoBackoff(rows, jobID, errMsg, retry, t) ==
    IF retry
    THEN {IF j.id = jobID
          THEN [j EXCEPT !.status = StatusPending, !.retries = j.retries + 1,
                         !.nextRunAt = t, !.error = errMsg]
          ELSE j : j \in rows}
    ELSE {IF j.id = jobID
          THEN [j EXCEPT !.status = StatusFailed, !.error = errMsg]
          ELSE j : j \in rows}

\* the retry branch with retries = retries + 2
FailCountsTwice(rows, jobID, errMsg, retry, t) ==
    IF retry
    THEN {IF j.id = jobID
          THEN [j EXCEPT !.status = StatusPending, !.retries = j.retries + 2,
                         !.nextRunAt = t + RetryBackoff, !.error = errMsg]
          ELSE j : j \in rows}
    ELSE {IF j.id = jobID
          THEN [j EXCEPT !.status = StatusFailed, !.error = errMsg]
          ELSE j : j \in rows}

\* UPDATE jobs SET status, retries, next_run_at, error WHERE id = ?
Fail(rows, jobID, errMsg, retry, t) ==
    IF retry
    THEN {IF j.id = jobID
          THEN [j EXCEPT !.status = StatusPending, !.retries = j.retries + 1,
                         !.nextRunAt = t + RetryBackoff, !.error = errMsg]
          ELSE j : j \in rows}
    ELSE {IF j.id = jobID
          THEN [j EXCEPT !.status = StatusFailed, !.error = errMsg]
          ELSE j : j \in rows}

\* the count restricted to status = 'running'
HasRunningJob(rows, brandID) ==
    \E j \in rows : j.brandID = brandID /\ j.status = StatusRunning

\* the count restricted to type = 'run'
HasPendingRunJob(rows, brandID) ==
    \E j \in rows : /\ j.brandID = brandID
                    /\ j.type = JobTypeRun
                    /\ j.status \in {StatusPending, StatusRunning}

\* the count restricted to status = 'pending'
HasQueuedJob(rows, brandID) ==
    \E j \in rows : j.brandID = brandID /\ j.status = StatusPending

\* the count with status IN (pending, running, failed)
HasUnfinishedJob(rows, brandID) ==
    \E j \in rows : j.brandID = brandID
                    /\ j.status \in {StatusPending, StatusRunning, StatusFailed}

\* SELECT COUNT(*) FROM jobs WHERE brand_id = ? AND status IN (pending, running)
HasPendingJob(rows, brandID) ==
    \E j \in rows : j.brandID = brandID
                    /\ j.status \in {StatusPending, StatusRunning}

\* ------------------------------------------------------- SQLite file locks
\* connections inside a Dequeue transaction hold SHARED from the SELECT on
HoldsShared(w) == wpc[w] = "selected"

\* a commit that waits for no lock
CanCommitNoLock(w) == TRUE

\* a commit gets EXCLUSIVE when no other connection holds SHARED
CanCommit(w) == \A o \in Workers \ {w} : ~HoldsShared(o)

\* an autocommit statement of a connection outside any transaction
CanWrite == \A o \in Workers : ~HoldsShared(o)


\* ------------------------------------------------------------ memory.Store
\* INSERT INTO posts: of a brand's posts the model keeps the newest creation
\* time, the head of PostgresStore.GetHistory (ORDER BY created_at DESC)
SavePost(h, t) == <<t>>

\* history[0].CreatedAt
HistoryHead(h) == h[1]

\* the posts of a brand as the creation times in the order of the SavePost
\* calls.  FileStore.SavePost appends to history.json and FileStore.GetHistory
\* returns the file's list as it is
FileGetHistory(saved) == saved

Remove(s, i) == SubSeq(s, 1, i - 1) \o SubSeq(s, i + 1, Len(s))

RECURSIVE SortDesc(_)
SortDesc(s) ==
    IF s = <<>> THEN <<>>
    ELSE LET i == CHOOSE i \in DOMAIN s : \A k \in DOMAIN s : s[k] <= s[i]
         IN <<s[i]>> \o SortDesc(Remove(s, i))

\* PostgresStore.GetHistory: ORDER BY created_at DESC
PostgresGetHistory(saved) == SortDesc(saved)

\* the query with status IN ('approved', 'scheduled')
GetUnpublishedScheduledPosts(ps, t) ==
    {p \in DOMAIN ps : /\ ps[p].status \in {PostApproved, PostScheduled}
                       /\ ps[p].scheduledAt <= t}

\* GetPendingScheduledPosts: status = 'approved' AND scheduled_at <= now
GetPendingScheduledPosts(ps, t) ==
    {p \in DOMAIN ps : ps[p].status = PostApproved /\ ps[p].scheduledAt <= t}

\* UPDATE scheduled_posts SET status = ? WHERE id = ?
UpdateScheduledPostStatus(ps, p, status) ==
    IF p \in DOMAIN ps THEN [ps EXCEPT ![p].status = status] ELSE ps

\* the search in the scheduled posts of every tenant
FindTargetAnyTenant(ps, brandID, payload) ==
    {p \in DOMAIN ps : p = payload}

\* GetScheduledPosts(brandID) searched for p.ID == job.Payload
FindTarget(ps, brandID, payload) ==
    {p \in DOMAIN ps : PostBrand(p) = brandID /\ p = payload}

\* ---------------------------------------------------------------- Worker
\* shouldRetry := job.Retries <= 3
ShouldRetryInclusive(retries) == retries <= MaxRetries

\* shouldRetry := job.Retries < 3
ShouldRetry(retries) == retries < MaxRetries

\* how far the dispatched operation gets before it returns
Outcomes == {"ok", "listErr", "postErr", "saveErr", "flipErr"}

\* Social.Post of PublishScheduledPost succeeded
Posted(job, outcome) ==
    /\ job.type = JobTypePublish
    /\ FindTarget(posts, job.brandID, job.payload) # {}
    /\ outcome \in {"ok", "saveErr", "flipErr"}

\* Store.SavePost succeeded (Agent.Run step 5, PublishScheduledPost)
Saved(job, outcome) ==
    \/ job.type = JobTypeRun /\ outcome = "ok"
    \/ Posted(job, outcome) /\ outcome \in {"ok", "flipErr"}

\* runErr with the error of the last store call of PublishScheduledPost
\* dropped
RunErrFlipIgnored(job, outcome) ==
    IF job.type = JobTypePublish
    THEN IF outcome = "listErr" THEN ErrOp
         ELSE IF FindTarget(posts, job.brandID, job.payload) = {} THEN ErrNotFound
         ELSE IF outcome \in {"ok", "flipErr"} THEN ErrNone ELSE ErrOp
    ELSE IF job.type \in {JobTypeRun, JobTypeSync, JobTypePlan}
         THEN IF outcome = "ok" THEN ErrNone ELSE ErrOp
         ELSE "unknown job type"

\* runErr of the switch on job.Type
RunErr(job, outcome) ==
    IF job.type = JobTypePublish
    THEN IF outcome = "listErr" THEN ErrOp
         ELSE IF FindTarget(posts, job.brandID, job.payload) = {} THEN ErrNotFound
         ELSE IF outcome = "ok" THEN ErrNone ELSE ErrOp
    ELSE IF job.type \in {JobTypeRun, JobTypeSync, JobTypePlan}
         THEN IF outcome = "ok" THEN ErrNone ELSE ErrOp
         ELSE "unknown job type"

\* a construction failure resolved like an operation failure
ResolveRetryingConstruction(rows, job, factoryOk, outcome, t) ==
    IF ~factoryOk THEN Fail(rows, job.id, ErrFactory, ShouldRetry(job.retries), t)
    ELSE IF RunErr(job, outcome) # ErrNone
         THEN Fail(rows, job.id, RunErr(job, outcome), ShouldRetry(job.retries), t)
         ELSE Ack(rows, job.id)

\* the store call Process ends with
Resolve(rows, job, factoryOk, outcome, t) ==
    IF ~factoryOk THEN Fail(rows, job.id, ErrFactory, FALSE, t)
    ELSE IF RunErr(job, outcome) # ErrNone
         THEN Fail(rows, job.id, RunErr(job, outcome), ShouldRetry(job.retries), t)
         ELSE Ack(rows, job.id)

Bump(n) == IF n = 0 THEN 1 ELSE 2

\* Dequeue, first statement: BEGIN and the SELECT; with no row Dequeue
\* returns nil, nil and the Worker waits for its next tick
Select(w) ==
    /\ wpc[w] = "idle"
    /\ IF SelectOldestDue(jobs, now) = {}
       THEN UNCHANGED workerVars
       ELSE \E j \in SelectOldestDue(jobs, now) :
              /\ wjob' = [wjob EXCEPT ![w] = [j EXCEPT !.status = StatusRunning]]
              /\ wpc' = [wpc EXCEPT ![w] = "selected"]
    /\ UNCHANGED <<now, queueVars, schedVars, contentVars, ghostVars,
                   triggers, ackArg, quit>>

DequeueSelect(w) == Select(w) /\ UNCHANGED call

\* Dequeue, the UPDATE and tx.Commit(): the job is stored as running and
\* returned; SQLITE_BUSY while another transaction holds SHARED
DequeueCommit(w) ==
    /\ wpc[w] = "selected"
    /\ CanCommit(w)
    /\ jobs' = MarkRunning(jobs, wjob[w].id)
    /\ wpc' = [wpc EXCEPT ![w] = "claimed"]
    /\ UNCHANGED <<now, nextId, wjob, schedVars, contentVars, ghostVars, envVars>>

\* an error return of Dequeue that leaves the UPDATE in the table
AbortAfterUpdate(w) ==
    /\ wpc[w] = "selected"
    /\ wpc' = [wpc EXCEPT ![w] = "idle"]
    /\ wjob' = [wjob EXCEPT ![w] = NoJob]
    /\ jobs' = MarkRunning(jobs, wjob[w].id)
    /\ UNCHANGED <<now, nextId, schedVars, contentVars, ghostVars,
                   triggers, ackArg, quit>>

\* Dequeue returns an error (SQLITE_BUSY or any other) after the SELECT: the
\* deferred tx.Rollback() ends the transaction, and the Worker waits for its
\* next tick
Abort(w) ==
    /\ wpc[w] = "selected"
    /\ wpc' = [wpc EXCEPT ![w] = "idle"]
    /\ wjob' = [wjob EXCEPT ![w] = NoJob]
    /\ UNCHANGED <<now, queueVars, schedVars, contentVars, ghostVars,
                   triggers, ackArg, quit>>

DequeueError(w) == Abort(w) /\ UNCHANGED call

\* one more tick of the Worker loop in which Dequeue returned no job: how it
\* returned ("none" or "error") and, in id, how many such ticks there were
Tick(c, how) ==
    [NoCall EXCEPT !.op = "Dequeue", !.msg = how,
                   !.id = (IF c.op = "Dequeue" THEN c.id ELSE 0) + 1]

\* Dequeue up to the SELECT, counting the tick when no row is due
DequeueSelectCall(w) ==
    /\ Select(w)
    /\ IF SelectOldestDue(jobs, now) = {}
       THEN call.id < MaxTicks /\ call' = Tick(call, "none")
       ELSE UNCHANGED call

\* Dequeue returns an error, before the SELECT (db.Begin or the query fails)
\* or after it, counting the tick
DequeueErrorCall(w) ==
    /\ call.id < MaxTicks
    /\ \/ Abort(w)
       \/ /\ wpc[w] = "idle"
          /\ UNCHANGED <<now, queueVars, workerVars, schedVars, contentVars,
                         ghostVars, triggers, ackArg, quit>>
    /\ call' = Tick(call, "error")

\* Worker.Process for the factory's result, the way the operation ends and
\* the result of the Ack or Fail call (whose error is ignored): everything
\* Process does.  The factory (GetBrand) fails for a tenant that is not stored
Dispatch(w, factoryOk, outcome, storeOk) ==
    /\ wpc[w] = "claimed"
    /\ factoryOk => wjob[w].brandID \in brands
    /\ LET job == wjob[w]
           ran == factoryOk
           p   == job.payload
       IN /\ storeOk => CanWrite
          /\ jobs' = IF storeOk THEN Resolve(jobs, job, factoryOk, outcome, now)
                     ELSE jobs
          /\ execs' = LET n == execs[job.id] + (IF ran THEN 1 ELSE 0)
                       IN [execs EXCEPT ![job.id] =
                             IF job.id \in Ids(jobs') THEN n ELSE 0]
          /\ published' = IF ran /\ Posted(job, outcome)
                          THEN [published EXCEPT ![p] = Bump(@)] ELSE published
          /\ history' = IF ran /\ Saved(job, outcome)
                        THEN [history EXCEPT ![job.brandID] = SavePost(@, now)]
                        ELSE history
          /\ posts' = IF ran /\ Posted(job, outcome) /\ outcome = "ok"
                      THEN UpdateScheduledPostStatus(posts, p, PostPublished)
                      ELSE posts
    /\ wpc' = [wpc EXCEPT ![w] = "idle"]
    /\ wjob' = [wjob EXCEPT ![w] = NoJob]
    /\ UNCHANGED <<now, nextId, schedVars, brands, triggers, ackArg, quit>>

\* Worker.Process: factory, dispatch, Ack or Fail (whose error is ignored)
Process(w) ==
    /\ \E factoryOk \in BOOLEAN, outcome \in Outcomes, storeOk \in BOOLEAN :
         Dispatch(w, factoryOk, outcome, storeOk)
    /\ UNCHANGED call

\* the one queue call Process ends with, as the Worker makes it: the method,
\* its arguments and in result whether it returned nil; type is the type of
\* the operation that was dispatched ("" when none was)
ResolutionCall(job, factoryOk, outcome, storeOk) ==
    IF ~factoryOk
    THEN [NoCall EXCEPT !.op = "Fail", !.id = job.id, !.msg = ErrFactory,
                        !.retry = FALSE, !.brand = job.brandID,
                        !.payload = job.payload, !.result = storeOk]
    ELSE IF RunErr(job, outcome) # ErrNone
         THEN [NoCall EXCEPT !.op = "Fail", !.id = job.id,
                             !.msg = RunErr(job, outcome),
                             !.retry = ShouldRetry(job.retries),
                             !.brand = job.brandID, !.type = job.type,
                             !.payload = job.payload, !.result = storeOk]
         ELSE [NoCall EXCEPT !.op = "Ack", !.id = job.id,
                             !.brand = job.brandID, !.type = job.type,
                             !.payload = job.payload, !.result = storeOk]

\* Worker.Process, keeping in call the Ack or Fail call it made
ProcessCall(w) ==
    \E factoryOk \in BOOLEAN, outcome \in Outcomes, storeOk \in BOOLEAN :
         /\ Dispatch(w, factoryOk, outcome, storeOk)
         /\ call' = ResolutionCall(wjob[w], factoryOk, outcome, storeOk)

\* ------------------------------------------------------ on-demand trigger
\* Handlers.TriggerRun: GetBrand succeeds, Enqueue(brandID, run, 0, "")
TriggerRun(b) ==
    /\ <<b, JobTypeRun>> \in triggers
    /\ b \in brands
    /\ nextId <= MaxJobs
    /\ CanWrite
    /\ jobs' = Enqueue(jobs, nextId, b, JobTypeRun, 0, "", now)
    /\ nextId' = nextId + 1
    /\ triggers' = triggers \ {<<b, JobTypeRun>>}
    /\ UNCHANGED <<now, workerVars, schedVars, contentVars, ghostVars, ackArg, call, quit>>

\* Handlers.TriggerSync: GetBrand succeeds, Enqueue(brandID, sync, 0, "")
TriggerSync(b) ==
    /\ <<b, JobTypeSync>> \in triggers
    /\ b \in brands
    /\ nextId <= MaxJobs
    /\ CanWrite
    /\ jobs' = Enqueue(jobs, nextId, b, JobTypeSync, 0, "", now)
    /\ nextId' = nextId + 1
    /\ triggers' = triggers \ {<<b, JobTypeSync>>}
    /\ UNCHANGED <<now, workerVars, schedVars, contentVars, ghostVars, ackArg, call, quit>>

\* a handler that enqueues a Cycle job whatever was requested
TriggerAlwaysRun(op) == JobTypeRun

\* the job type each handler passes to Enqueue
TriggerJobType(op) == IF op = "TriggerRun" THEN JobTypeRun ELSE JobTypeSync

\* the HTTP answer of the handler
TriggerAnswer(lookupOk, enqueueOk) ==
    IF ~lookupOk THEN "brand not found"
    ELSE IF ~enqueueOk THEN "failed to enqueue job"
    ELSE "accepted"

\* Handlers.TriggerRun / TriggerSync as a whole, for any brandID of the URL:
\* GetBrand, then Enqueue(brandID, type, 0, ""), then the answer.  call keeps
\* the handler, the brandID, the value of the id sequence at the request, the
\* answer and in result whether the request was accepted
TriggerCall(op, b) ==
    /\ \E lookupOk \in BOOLEAN, enqueueOk \in BOOLEAN :
         /\ lookupOk => b \in brands
         /\ (lookupOk /\ enqueueOk) => (CanWrite /\ nextId <= MaxJobs)
         /\ jobs' = IF lookupOk /\ enqueueOk
                    THEN Enqueue(jobs, nextId, b, TriggerJobType(op), 0, "", now)
                    ELSE jobs
         /\ nextId' = IF lookupOk /\ enqueueOk THEN nextId + 1 ELSE nextId
         /\ call' = [NoCall EXCEPT !.op = op, !.brand = b, !.id = nextId,
                                   !.msg = TriggerAnswer(lookupOk, enqueueOk),
                                   !.result = (lookupOk /\ enqueueOk)]
    /\ UNCHANGED <<now, workerVars, schedVars, contentVars, ghostVars,
                   triggers, ackArg, quit>>

\* -------------------------------------------------------------- Scheduler
\* nextRunDelay without the clamp of an overdue target
NextRunDelayUnclamped(h, histOk, intervalHours, t) ==
    LET hours == IF intervalHours <= 0 THEN DefaultIntervalHours ELSE intervalHours
    IN IF histOk /\ Len(h) > 0
       THEN HistoryHead(h) + hours * SecondsPerHour - t
       ELSE WarmUpDelay

\* nextRunDelay of EnsureScheduled; histOk is err == nil of GetHistory
NextRunDelay(h, histOk, intervalHours, t) ==
    LET hours == IF intervalHours <= 0 THEN DefaultIntervalHours ELSE intervalHours
    IN IF histOk /\ Len(h) > 0
       THEN LET d == HistoryHead(h) + hours * SecondsPerHour - t
            IN IF d < 0 THEN CatchUpDelay ELSE d
       ELSE WarmUpDelay

\* SyncAllBrands for the result of ListAllBrands: on an error the pass
\* visits no brand
SyncList(listOk) ==
    /\ spc = "idle"
    /\ sTodo' = IF listOk THEN brands ELSE {}
    /\ sErr' = ~listOk
    /\ spc' = "sync"
    /\ UNCHANGED <<now, queueVars, workerVars, sCur, sPosts, sPost,
                   contentVars, ghostVars, triggers, ackArg, quit>>

\* SyncAllBrands: ListAllBrands; on an error the pass visits no brand
SyncAllBrands ==
    /\ \E listOk \in BOOLEAN : SyncList(listOk)
    /\ UNCHANGED call

\* an error of HasPendingJob that ends the loop over the brands
EnsureVisitAborting(b, hasOk, histOk) ==
    /\ spc = "sync"
    /\ b \in sTodo
    /\ IF ~hasOk \/ HasPendingJob(jobs, b)
       THEN /\ sTodo' = IF hasOk THEN sTodo \ {b} ELSE {}
            /\ sErr' = (sErr \/ ~hasOk)
            /\ UNCHANGED <<spc, sCur>>
       ELSE /\ spc' = "enqueue"
            /\ sCur' = [brand |-> b,
                        delay |-> NextRunDelay(history[b], histOk,
                                               IntervalHours(b), now)]
            /\ sErr' = (sErr \/ ~histOk)
            /\ UNCHANGED sTodo
    /\ UNCHANGED <<now, queueVars, workerVars, sPosts, sPost,
                   contentVars, ghostVars, triggers, ackArg, quit>>

\* EnsureScheduled up to the delay, for the results of HasPendingJob and
\* GetHistory
EnsureVisit(b, hasOk, histOk) ==
    /\ spc = "sync"
    /\ b \in sTodo
    /\ IF ~hasOk \/ HasPendingJob(jobs, b)
       THEN /\ sTodo' = sTodo \ {b}
            /\ sErr' = (sErr \/ ~hasOk)
            /\ UNCHANGED <<spc, sCur>>
       ELSE /\ spc' = "enqueue"
            /\ sCur' = [brand |-> b,
                        delay |-> NextRunDelay(history[b], histOk,
                                               IntervalHours(b), now)]
            /\ sErr' = (sErr \/ ~histOk)
            /\ UNCHANGED sTodo
    /\ UNCHANGED <<now, queueVars, workerVars, sPosts, sPost,
                   contentVars, ghostVars, triggers, ackArg, quit>>

\* EnsureScheduled up to the delay: HasPendingJob, GetHistory
EnsureScheduled(b) ==
    /\ \E hasOk \in BOOLEAN, histOk \in BOOLEAN : EnsureVisit(b, hasOk, histOk)
    /\ UNCHANGED call

\* SyncAllBrands, keeping in call the pass it starts: in result whether
\* ListAllBrands succeeded, in id the value of the id sequence
SyncAllBrandsPass ==
    \E listOk \in BOOLEAN :
        /\ SyncList(listOk)
        /\ call' = [NoCall EXCEPT !.op = "pass", !.result = listOk,
                                  !.id = nextId]

\* EnsureScheduled up to the delay, keeping in call (brand) the tenant whose
\* HasPendingJob returned an error in this pass
EnsureScheduledPass(b) ==
    \E hasOk \in BOOLEAN, histOk \in BOOLEAN :
        /\ EnsureVisit(b, hasOk, histOk)
        /\ call' = IF hasOk THEN call ELSE [call EXCEPT !.brand = b]

\* EnsureScheduled, last statement: Enqueue(brandID, run, nextRunDelay, "")
EnsureEnqueue ==
    /\ spc = "enqueue"
    /\ \E ok \in BOOLEAN :
         /\ ok => CanWrite /\ nextId <= MaxJobs
         /\ jobs' = IF ok THEN Enqueue(jobs, nextId, sCur.brand, JobTypeRun,
                                       sCur.delay, "", now)
                    ELSE jobs
         /\ nextId' = IF ok THEN nextId + 1 ELSE nextId
         /\ sErr' = (sErr \/ ~ok)
    /\ sTodo' = sTodo \ {sCur.brand}
    /\ sCur' = NoCur
    /\ spc' = "sync"
    /\ UNCHANGED <<now, workerVars, sPosts, sPost, contentVars, ghostVars, envVars>>

\* CheckScheduledPosts: GetPendingScheduledPosts; on an error nothing to
\* visit; with nothing to visit the pass is over and Start waits for the tick
CheckScheduledPosts ==
    /\ spc = "sync"
    /\ sTodo = {}
    /\ \E listOk \in BOOLEAN :
         sPosts' = IF listOk THEN GetPendingScheduledPosts(posts, now) ELSE {}
    /\ spc' = IF sPosts' = {} THEN "idle" ELSE "posts"
    /\ sErr' = FALSE
    /\ UNCHANGED <<now, queueVars, workerVars, sTodo, sCur, sPost,
                   contentVars, ghostVars, envVars>>

\* loop body, first call: Enqueue(p.BrandID, publish, 0, p.ID), error ignored
PublishEnqueue(p) ==
    /\ spc = "posts"
    /\ p \in sPosts
    /\ \E ok \in BOOLEAN :
         /\ ok => CanWrite /\ nextId <= MaxJobs
         /\ jobs' = IF ok THEN Enqueue(jobs, nextId, PostBrand(p), JobTypePublish,
                                       0, p, now)
                    ELSE jobs
         /\ nextId' = IF ok THEN nextId + 1 ELSE nextId
    /\ sPost' = p
    /\ spc' = "flip"
    /\ UNCHANGED <<now, workerVars, sTodo, sCur, sPosts, sErr,
                   contentVars, ghostVars, envVars>>

\* loop body, second call: UpdateScheduledPostStatus(p.ID, scheduled); after
\* the last post the pass is over
PublishFlip ==
    /\ spc = "flip"
    /\ \E ok \in BOOLEAN :
         posts' = IF ok THEN UpdateScheduledPostStatus(posts, sPost, PostScheduled)
                  ELSE posts
    /\ sPosts' = sPosts \ {sPost}
    /\ sPost' = ""
    /\ spc' = IF sPosts' = {} THEN "idle" ELSE "posts"
    /\ UNCHANGED <<now, queueVars, workerVars, sTodo, sCur, sErr,
                   history, brands, ghostVars, envVars>>

\* ------------------------------------------------------------------ clock
Advance(d, horizon) ==
    /\ now + d <= horizon
    /\ now' = now + d
    /\ UNCHANGED <<queueVars, workerVars, schedVars, contentVars, ghostVars, envVars>>

\* ------------------------------------------------------- crash and restart
\* the jobs a Worker holds as claimed
Held == {wjob[w].id : w \in {x \in Workers : wpc[x] = "claimed"}}

\* the process dies and is started again (once): the goroutines and an open
\* Dequeue transaction are gone, the loops start over, jobs.db and the
\* content store are as they were.  call keeps in id a job that was claimed
\* at the crash (0: none was)
Crash ==
    /\ call.op # "Crash"
    /\ wpc' = [w \in Workers |-> "idle"]
    /\ wjob' = [w \in Workers |-> NoJob]
    /\ spc' = "idle"
    /\ sTodo' = {}
    /\ sCur' = NoCur
    /\ sPosts' = {}
    /\ sPost' = ""
    /\ sErr' = FALSE
    /\ call' = [NoCall EXCEPT !.op = "Crash",
                              !.id = IF Held = {} THEN 0
                                     ELSE CHOOSE i \in Held : TRUE]
    /\ UNCHANGED <<now, queueVars, contentVars, ghostVars, triggers, ackArg, quit>>

\* --------------------------------------------------------------- shutdown
\* the shutdown signal is raised: the context passed to Worker.Start is
\* cancelled or Worker.Quit becomes ready.  Scheduler.Start takes no context
\* and has no quit channel
Shutdown ==
    /\ ~quit
    /\ quit' = TRUE
    /\ UNCHANGED <<now, queueVars, workerVars, schedVars, contentVars, ghostVars,
                   triggers, ackArg, call>>

\* Worker.Start at its select with the signal raised: the ctx.Done() or Quit
\* case is taken and Start returns.  When the ticker has fired as well the
\* select takes either case, so Select(w) stays possible
WorkerStop(w) ==
    /\ wpc[w] = "idle"
    /\ quit
    /\ wpc' = [wpc EXCEPT ![w] = "stopped"]
    /\ UNCHANGED <<now, queueVars, wjob, schedVars, contentVars, ghostVars, envVars>>

\* a direct call of Ack with any jobID
AckCall(jobID) ==
    /\ jobs' = Ack(jobs, jobID)
    /\ ackArg' = jobID
    /\ UNCHANGED <<now, nextId, workerVars, schedVars, contentVars, ghostVars, triggers, call, quit>>

\* a direct call of Fail with any jobID, message and retry flag
FailCall(jobID, errMsg, retry) ==
    /\ jobs' = Fail(jobs, jobID, errMsg, retry, now)
    /\ call' = [NoCall EXCEPT !.op = "Fail", !.id = jobID, !.msg = errMsg,
                              !.retry = retry]
    /\ UNCHANGED <<now, nextId, workerVars, schedVars, contentVars, ghostVars,
                   triggers, ackArg, quit>>

\* a direct call of HasPendingJob: the bool it returns
HasPendingJobCall(brandID) ==
    /\ call' = [NoCall EXCEPT !.op = "HasPendingJob", !.brand = brandID,
                              !.result = HasPendingJob(jobs, brandID)]
    /\ UNCHANGED <<now, queueVars, workerVars, schedVars, contentVars, ghostVars,
                   triggers, ackArg, quit>>

\* a direct call of Enqueue with any arguments
EnqueueCall(brandID, jobType, delay, payload) ==
    /\ jobs' = Enqueue(jobs, nextId, brandID, jobType, delay, payload, now)
    /\ nextId' = nextId + 1
    /\ call' = [NoCall EXCEPT !.op = "Enqueue", !.brand = brandID,
                              !.type = jobType, !.delay = delay,
                              !.payload = payload]
    /\ UNCHANGED <<now, workerVars, schedVars, contentVars, ghostVars,
                   triggers, ackArg, quit>>

\* ---------------------------------------------------------- specification
\* the state after construction: empty queue, idle loops
Started ==
    /\ now = 0
    /\ jobs = {}
    /\ nextId = 1
    /\ wpc = [w \in Workers |-> "idle"]
    /\ wjob = [w \in Workers |-> NoJob]
    /\ spc = "idle"
    /\ sTodo = {}
    /\ sCur = NoCur
    /\ sPosts = {}
    /\ sPost = ""
    /\ sErr = FALSE
    /\ ackArg = 0
    /\ call = NoCall
    /\ quit = FALSE
    /\ execs = [i \in 1..MaxJobs |-> 0]
    /\ published = [p \in PostIds |-> 0]
    /\ history = [b \in Brands |-> IF b = "T1" THEN <<>> ELSE <<-7200>>]

\* the server of cmd/server/main.go: one Worker, one Scheduler, the API;
\* one tenant with one approved scheduled post that is due
Init ==
    /\ Started
    /\ brands = {"T1"}
    /\ posts = [p \in PostIds |-> [status |-> PostApproved, scheduledAt |-> 0]]
    /\ triggers = {<<"T1", JobTypeRun>>}

Next ==
    \/ \E w \in MainWorkers : DequeueSelect(w)
    \/ \E w \in MainWorkers : DequeueCommit(w)
    \/ \E w \in MainWorkers : DequeueError(w)
    \/ \E w \in MainWorkers : Process(w)
    \/ \E b \in Brands : TriggerRun(b)
    \/ SyncAllBrands
    \/ \E b \in Brands : EnsureScheduled(b)
    \/ EnsureEnqueue
    \/ CheckScheduledPosts
    \/ \E p \in PostIds : PublishEnqueue(p)
    \/ PublishFlip
    \/ \E d \in TimeSteps : Advance(d, MaxTime)

Spec == Init /\ [][Next]_vars

\* two tenants, no scheduled posts, run and sync requests
InitTenants ==
    /\ Started
    /\ brands = Brands
    /\ posts = [p \in {} |-> [status |-> PostApproved, scheduledAt |-> 0]]
    /\ triggers = {<<"T1", JobTypeSync>>, <<"T2", JobTypeSync>>}

NextTenants ==
    \/ \E w \in MainWorkers : DequeueSelect(w)
    \/ \E w \in MainWorkers : DequeueCommit(w)
    \/ \E w \in MainWorkers : DequeueError(w)
    \/ \E w \in MainWorkers : Process(w)
    \/ \E b \in Brands : TriggerSync(b)
    \/ SyncAllBrands
    \/ \E b \in Brands : EnsureScheduled(b)
    \/ EnsureEnqueue
    \/ CheckScheduledPosts
    \/ \E d \in TimeSteps : Advance(d, MaxTime)

SpecTenants == InitTenants /\ [][NextTenants]_vars

\* scale-out: two Workers polling the same queue, jobs from the trigger
InitWorkers ==
    /\ Started
    /\ brands = Brands
    /\ posts = [p \in {} |-> [status |-> PostApproved, scheduledAt |-> 0]]
    /\ triggers = {<<"T1", JobTypeRun>>, <<"T1", JobTypeSync>>,
                   <<"T2", JobTypeRun>>}

NextWorkers ==
    \/ \E w \in Workers : DequeueSelect(w)
    \/ \E w \in Workers : DequeueCommit(w)
    \/ \E w \in Workers : DequeueError(w)
    \/ \E w \in Workers : Process(w)
    \/ \E b \in Brands : TriggerRun(b)
    \/ \E b \in Brands : TriggerSync(b)
    \/ \E d \in TimeSteps : Advance(d, MaxTime)

SpecWorkers == InitWorkers /\ [][NextWorkers]_vars

\* the Scheduler alone, pass after pass over two tenants and one approved
\* scheduled post that is due, every store call succeeding or failing
InitPass ==
    /\ Started
    /\ brands = Brands
    /\ posts = [p \in PostIds |-> [status |-> PostApproved, scheduledAt |-> 0]]
    /\ triggers = {}

NextPass ==
    \/ SyncAllBrandsPass
    \/ \E b \in Brands : EnsureScheduledPass(b)
    \/ EnsureEnqueue
    \/ CheckScheduledPosts
    \/ \E p \in PostIds : PublishEnqueue(p)
    \/ PublishFlip
    \/ \E d \in TimeSteps : Advance(d, MaxTime)

SpecPass == InitPass /\ [][NextPass]_vars

\* the loop of Worker.Start: a tick, Dequeue, Process
WorkerLoop(w) ==
    \/ DequeueSelect(w)
    \/ DequeueCommit(w)
    \/ DequeueError(w)
    \/ Process(w)

\* two Workers polling the queue while run and sync requests of one tenant
\* arrive, where each Worker keeps ticking, every Process returns, and no
\* Worker's Dequeue fails for ever: a Dequeue whose commit is possible again
\* and again commits at some time
InitStarve ==
    /\ Started
    /\ brands = {"T1"}
    /\ posts = [p \in {} |-> [status |-> PostApproved, scheduledAt |-> 0]]
    /\ triggers = {<<"T1", JobTypeRun>>, <<"T1", JobTypeSync>>}

SpecStarve ==
    /\ InitStarve
    /\ [][NextWorkers]_vars
    /\ \A w \in Workers : WF_vars(WorkerLoop(w))
    /\ \A w \in Workers : SF_vars(DequeueCommit(w))

\* one Worker and jobs from the trigger, long enough for every retry
InitRetry ==
    /\ Started
    /\ brands = {"T1"}
    /\ posts = [p \in {} |-> [status |-> PostApproved, scheduledAt |-> 0]]
    /\ triggers = {<<"T1", JobTypeRun>>, <<"T1", JobTypeSync>>}

NextRetry ==
    \/ \E w \in MainWorkers : DequeueSelect(w)
    \/ \E w \in MainWorkers : DequeueCommit(w)
    \/ \E w \in MainWorkers : DequeueError(w)
    \/ \E w \in MainWorkers : Process(w)
    \/ \E b \in Brands : TriggerRun(b)
    \/ \E b \in Brands : TriggerSync(b)
    \/ \E d \in TimeSteps : Advance(d, MaxRetryTime)

SpecRetry == InitRetry /\ [][NextRetry]_vars

\* the queue alone: any table the Worker and the producers can leave behind
\* (ids unique, at most MaxJobs rows), and direct calls of Ack
JobRows ==
    [id : 1..MaxJobs, brandID : Brands, type : {JobTypeRun},
     status : {StatusPending, StatusRunning, StatusFailed}, retries : {0},
     nextRunAt : {0}, payload : {""}, error : {ErrNone}]

InitAck ==
    /\ now = 0
    /\ jobs \in {rows \in SUBSET JobRows :
                   \A a, b \in rows : a.id = b.id => a = b}
    /\ nextId = MaxJobs + 1
    /\ wpc = [w \in Workers |-> "idle"]
    /\ wjob = [w \in Workers |-> NoJob]
    /\ spc = "idle"
    /\ sTodo = {}
    /\ sCur = NoCur
    /\ sPosts = {}
    /\ sPost = ""
    /\ sErr = FALSE
    /\ ackArg = 0
    /\ call = NoCall
    /\ quit = FALSE
    /\ execs = [i \in 1..MaxJobs |-> 0]
    /\ published = [p \in PostIds |-> 0]
    /\ history = [b \in Brands |-> <<>>]
    /\ brands = Brands
    /\ posts = [p \in {} |-> [status |-> PostApproved, scheduledAt |-> 0]]
    /\ triggers = {}

NextAck == \E jobID \in 1..(MaxJobs + 1) : AckCall(jobID)

SpecAck == InitAck /\ [][NextAck]_vars

\* the queue methods alone, each called with any arguments on any table of
\* MaxJobs rows or fewer (each id is absent, a fresh run job or a retried
\* publish job, of either tenant, in any status), Enqueue up to twice
Absent == [brandID |-> "", type |-> "", status |-> "", retries |-> 0,
           nextRunAt |-> 0, payload |-> "", error |-> ErrNone]

RowKinds ==
    [brandID : Brands, type : {JobTypeRun}, status : {StatusPending,
     StatusRunning, StatusFailed}, retries : {0}, nextRunAt : {0},
     payload : {""}, error : {ErrNone}]
    \cup
    [brandID : Brands, type : {JobTypePublish}, status : {StatusPending,
     StatusRunning, StatusFailed}, retries : {2}, nextRunAt : {600},
     payload : {"sp1"}, error : {ErrOp}]

WithId(kind, jobID) ==
    [id |-> jobID, brandID |-> kind.brandID, type |-> kind.type,
     status |-> kind.status, retries |-> kind.retries,
     nextRunAt |-> kind.nextRunAt, payload |-> kind.payload,
     error |-> kind.error]

Tables ==
    {{WithId(f[i], i) : i \in {k \in 1..MaxJobs : f[k] # Absent}} :
        f \in [1..MaxJobs -> RowKinds \cup {Absent}]}

Delays == {0, 60}

InitQueue ==
    /\ now \in {0, 300}
    /\ jobs \in Tables
    /\ nextId = MaxJobs + 1
    /\ wpc = [w \in Workers |-> "idle"]
    /\ wjob = [w \in Workers |-> NoJob]
    /\ spc = "idle"
    /\ sTodo = {}
    /\ sCur = NoCur
    /\ sPosts = {}
    /\ sPost = ""
    /\ sErr = FALSE
    /\ ackArg = 0
    /\ call = NoCall
    /\ quit = FALSE
    /\ execs = [i \in 1..MaxJobs |-> 0]
    /\ published = [p \in PostIds |-> 0]
    /\ history = [b \in Brands |-> <<>>]
    /\ brands = Brands
    /\ posts = [p \in {} |-> [status |-> PostApproved, scheduledAt |-> 0]]
    /\ triggers = {}

NextQueue ==
    \/ \E jobID \in 1..(MaxJobs + 1), errMsg \in {ErrOp, ErrFactory},
          retry \in BOOLEAN :
         /\ call.op = ""
         /\ FailCall(jobID, errMsg, retry)
    \/ \E b \in Brands :
         /\ call.op = ""
         /\ HasPendingJobCall(b)
    \/ \E b \in Brands, jobType \in {JobTypeRun, JobTypePublish},
          delay \in Delays :
         /\ call.op \in {"", "Enqueue"}
         /\ nextId <= MaxJobs + 2
         /\ EnqueueCall(b, jobType, delay,
                        IF jobType = JobTypePublish THEN "sp1" ELSE "")

SpecQueue == InitQueue /\ [][NextQueue]_vars

\* EnsureScheduled alone, called for any tenant any number of times in
\* succession on a table of one job or none, with no Worker and no trigger.
\* call keeps, of the call in progress or returned last: the tenant, the
\* value of the id sequence at the call, and in result whether the tenant
\* had a Pending or Running job at the call
EnsureScheduledCall(b) ==
    /\ spc = "idle"
    /\ spc' = "sync"
    /\ sTodo' = {b}
    /\ sErr' = FALSE
    /\ call' = [NoCall EXCEPT !.op = "EnsureScheduled", !.brand = b,
                              !.id = nextId,
                              !.result = HasPendingJob(jobs, b)]
    /\ UNCHANGED <<now, queueVars, workerVars, sCur, sPosts, sPost,
                   contentVars, ghostVars, triggers, ackArg, quit>>

\* EnsureScheduled returns to its caller
EnsureReturn ==
    /\ spc = "sync"
    /\ sTodo = {}
    /\ call.op = "EnsureScheduled"
    /\ spc' = "idle"
    /\ UNCHANGED <<now, queueVars, workerVars, sTodo, sCur, sPosts, sPost, sErr,
                   contentVars, ghostVars, envVars>>

InitEnsure ==
    /\ now = 0
    /\ jobs \in {t \in Tables : Ids(t) \subseteq {1}}
    /\ nextId = Cardinality(jobs) + 1
    /\ wpc = [w \in Workers |-> "idle"]
    /\ wjob = [w \in Workers |-> NoJob]
    /\ spc = "idle"
    /\ sTodo = {}
    /\ sCur = NoCur
    /\ sPosts = {}
    /\ sPost = ""
    /\ sErr = FALSE
    /\ ackArg = 0
    /\ call = NoCall
    /\ quit = FALSE
    /\ execs = [i \in 1..MaxJobs |-> 0]
    /\ published = [p \in PostIds |-> 0]
    /\ history = [b \in Brands |-> IF b = "T1" THEN <<>> ELSE <<-7200>>]
    /\ brands = Brands
    /\ posts = [p \in {} |-> [status |-> PostApproved, scheduledAt |-> 0]]
    /\ triggers = {}

NextEnsure ==
    \/ \E b \in Brands : EnsureScheduledCall(b)
    \/ \E b \in Brands : EnsureScheduled(b)
    \/ EnsureEnqueue
    \/ EnsureReturn

SpecEnsure == InitEnsure /\ [][NextEnsure]_vars

\* EnsureScheduled called for tenants whose history either Store returns:
\* up to MaxPosts posts saved in the order of their creation, 5 hours to half
\* an hour before the start
PostTimes == {-18000, -7200, -3600, -1800}

SavedLists ==
    {s \in UNION {[1..n -> PostTimes] : n \in 0..MaxPosts} :
        \A k \in 1..(Len(s) - 1) : s[k] < s[k + 1]}

Histories ==
    {FileGetHistory(s) : s \in SavedLists} \cup
    {PostgresGetHistory(s) : s \in SavedLists}

InitHistory ==
    /\ now = 0
    /\ jobs = {}
    /\ nextId = 1
    /\ wpc = [w \in Workers |-> "idle"]
    /\ wjob = [w \in Workers |-> NoJob]
    /\ spc = "idle"
    /\ sTodo = {}
    /\ sCur = NoCur
    /\ sPosts = {}
    /\ sPost = ""
    /\ sErr = FALSE
    /\ ackArg = 0
    /\ call = NoCall
    /\ quit = FALSE
    /\ execs = [i \in 1..MaxJobs |-> 0]
    /\ published = [p \in PostIds |-> 0]
    /\ history \in [Brands -> Histories]
    /\ brands = Brands
    /\ posts = [p \in {} |-> [status |-> PostApproved, scheduledAt |-> 0]]
    /\ triggers = {}

NextHistory ==
    \/ \E b \in Brands : EnsureScheduledCall(b)
    \/ \E b \in Brands : EnsureScheduled(b)
    \/ EnsureEnqueue
    \/ EnsureReturn
    \/ \E d \in TimeSteps : Advance(d, MaxTime)

SpecHistory == InitHistory /\ [][NextHistory]_vars

\* the server with one tenant and no scheduled post, crashing once at any
\* point and running on after the restart
InitCrash ==
    /\ Started
    /\ brands = {"T1"}
    /\ posts = [p \in {} |-> [status |-> PostApproved, scheduledAt |-> 0]]
    /\ triggers = {<<"T1", JobTypeRun>>}

NextCrash ==
    \/ \E w \in MainWorkers : DequeueSelect(w)
    \/ \E w \in MainWorkers : DequeueCommit(w)
    \/ \E w \in MainWorkers : DequeueError(w)
    \/ \E w \in MainWorkers : Process(w)
    \/ \E b \in Brands : TriggerRun(b)
    \/ SyncAllBrands
    \/ \E b \in Brands : EnsureScheduled(b)
    \/ EnsureEnqueue
    \/ CheckScheduledPosts
    \/ \E d \in TimeSteps : Advance(d, MaxTime)
    \/ Crash

SpecCrash == InitCrash /\ [][NextCrash]_vars

\* the server with one tenant and no scheduled post, and the shutdown signal
\* raised at any point
NextShutdown ==
    \/ \E w \in MainWorkers : DequeueSelect(w)
    \/ \E w \in MainWorkers : DequeueCommit(w)
    \/ \E w \in MainWorkers : DequeueError(w)
    \/ \E w \in MainWorkers : Process(w)
    \/ \E w \in MainWorkers : WorkerStop(w)
    \/ \E b \in Brands : TriggerRun(b)
    \/ SyncAllBrands
    \/ \E b \in Brands : EnsureScheduled(b)
    \/ EnsureEnqueue
    \/ CheckScheduledPosts
    \/ \E d \in TimeSteps : Advance(d, MaxTime)
    \/ Shutdown

SpecShutdown == InitCrash /\ [][NextShutdown]_vars

\* the trigger handlers called for stored tenants and for one that is not
\* stored (T9), on an empty queue or one with the tenant's Cycle job that the
\* Scheduler enqueued, with one Worker polling (the operation it dispatches
\* for a job it claims is still running)
InitTrigger ==
    /\ now = 0
    /\ jobs \in {{}, Enqueue({}, 1, "T1", JobTypeRun, WarmUpDelay, "", 0)}
    /\ nextId = Cardinality(jobs) + 1
    /\ wpc = [w \in Workers |-> "idle"]
    /\ wjob = [w \in Workers |-> NoJob]
    /\ spc = "idle"
    /\ sTodo = {}
    /\ sCur = NoCur
    /\ sPosts = {}
    /\ sPost = ""
    /\ sErr = FALSE
    /\ ackArg = 0
    /\ call = NoCall
    /\ quit = FALSE
    /\ execs = [i \in 1..MaxJobs |-> 0]
    /\ published = [p \in PostIds |-> 0]
    /\ history = [b \in Brands |-> <<>>]
    /\ brands = Brands
    /\ posts = [p \in PostIds |-> [status |-> PostScheduled, scheduledAt |-> 0]]
    /\ triggers = {}

NextTrigger ==
    \/ \E op \in {"TriggerRun", "TriggerSync"}, b \in JobBrands : TriggerCall(op, b)
    \/ \E w \in MainWorkers : DequeueSelect(w)
    \/ \E w \in MainWorkers : DequeueCommit(w)
    \/ \E w \in MainWorkers : DequeueError(w)
    \/ \E d \in TimeSteps : Advance(d, MaxTime)

SpecTrigger == InitTrigger /\ [][NextTrigger]_vars

\* the server with one tenant, which last posted two hours ago, and one
\* approved scheduled post, both loops ticking for ever.  Every operation the
\* Worker dispatches succeeds and every store call succeeds, except that the
\* Enqueue of CheckScheduledPosts may return an error
SyncAllBrandsOk == SyncAllBrands /\ sTodo' = brands

EnsureScheduledOk(b) == EnsureScheduled(b) /\ ~sErr'

EnsureEnqueueOk == EnsureEnqueue /\ ~sErr'

CheckScheduledPostsOk ==
    CheckScheduledPosts /\ sPosts' = GetPendingScheduledPosts(posts, now)

PublishFlipOk ==
    PublishFlip /\ posts' = UpdateScheduledPostStatus(posts, sPost, PostScheduled)

ProcessOk(w) == Dispatch(w, TRUE, "ok", TRUE) /\ UNCHANGED call

SchedulerStep ==
    \/ SyncAllBrandsOk
    \/ \E b \in Brands : EnsureScheduledOk(b)
    \/ EnsureEnqueueOk
    \/ CheckScheduledPostsOk
    \/ \E p \in PostIds : PublishEnqueue(p)
    \/ PublishFlipOk

WorkerStep ==
    \/ \E w \in MainWorkers : DequeueSelect(w)
    \/ \E w \in MainWorkers : DequeueCommit(w)
    \/ \E w \in MainWorkers : ProcessOk(w)

InitLive ==
    /\ now = 0
    /\ jobs = {}
    /\ nextId = 1
    /\ wpc = [w \in Workers |-> "idle"]
    /\ wjob = [w \in Workers |-> NoJob]
    /\ spc = "idle"
    /\ sTodo = {}
    /\ sCur = NoCur
    /\ sPosts = {}
    /\ sPost = ""
    /\ sErr = FALSE
    /\ ackArg = 0
    /\ call = NoCall
    /\ quit = FALSE
    /\ execs = [i \in 1..MaxJobs |-> 0]
    /\ published = [p \in PostIds |-> 0]
    /\ history = [b \in Brands |-> <<-7200>>]
    /\ brands = {"T1"}
    /\ posts \in [PostIds -> [status : {PostApproved}, scheduledAt : {0, 300}]]
    /\ triggers = {}

NextLive ==
    \/ SchedulerStep
    \/ WorkerStep
    \/ \E d \in TimeSteps : Advance(d, MaxRetryTime)

SpecLive ==
    /\ InitLive
    /\ [][NextLive]_vars
    /\ WF_vars(SchedulerStep)
    /\ WF_vars(WorkerStep)
    /\ WF_vars(\E d \in TimeSteps : Advance(d, MaxRetryTime))

\* one tenant whose cycle fails on every execution, the Scheduler and the
\* Worker ticking for ever, every store call succeeding, long enough for two
\* Cycle jobs to use up their retries
ProcessFailing(w) ==
    /\ \E outcome \in Outcomes \ {"ok"} : Dispatch(w, TRUE, outcome, TRUE)
    /\ UNCHANGED call

SchedulerPass ==
    \/ SyncAllBrandsOk
    \/ \E b \in Brands : EnsureScheduledOk(b)
    \/ EnsureEnqueueOk
    \/ CheckScheduledPostsOk

WorkerFailing ==
    \/ \E w \in MainWorkers : DequeueSelect(w)
    \/ \E w \in MainWorkers : DequeueCommit(w)
    \/ \E w \in MainWorkers : ProcessFailing(w)

InitFailing ==
    /\ Started
    /\ brands = {"T1"}
    /\ posts = [p \in {} |-> [status |-> PostApproved, scheduledAt |-> 0]]
    /\ triggers = {}

NextFailing ==
    \/ SchedulerPass
    \/ WorkerFailing
    \/ \E d \in TimeSteps : Advance(d, 2 * MaxRetryTime)

SpecFailing ==
    /\ InitFailing
    /\ [][NextFailing]_vars
    /\ WF_vars(SchedulerPass)
    /\ WF_vars(WorkerFailing)

\* the Worker loop polling any table of MaxJobs rows or fewer, with jobs that
\* are due, not due, Running or Failed; call counts the ticks that got no job
InitPoll ==
    /\ now = 0
    /\ jobs \in Tables
    /\ nextId = MaxJobs + 1
    /\ wpc = [w \in Workers |-> "idle"]
    /\ wjob = [w \in Workers |-> NoJob]
    /\ spc = "idle"
    /\ sTodo = {}
    /\ sCur = NoCur
    /\ sPosts = {}
    /\ sPost = ""
    /\ sErr = FALSE
    /\ ackArg = 0
    /\ call = NoCall
    /\ quit = FALSE
    /\ execs = [i \in 1..MaxJobs |-> 0]
    /\ published = [p \in PostIds |-> 0]
    /\ history = [b \in Brands |-> <<>>]
    /\ brands = Brands
    /\ posts = [p \in PostIds |-> [status |-> PostScheduled, scheduledAt |-> 0]]
    /\ triggers = {}

NextPoll ==
    \/ \E w \in MainWorkers : DequeueSelectCall(w)
    \/ \E w \in MainWorkers : DequeueCommit(w)
    \/ \E w \in MainWorkers : DequeueErrorCall(w)
    \/ \E w \in MainWorkers : Process(w)
    \/ \E d \in TimeSteps : Advance(d, MaxTime)

SpecPoll == InitPoll /\ [][NextPoll]_vars

\* the Worker alone on any job it can find in the queue: a Pending job that
\* is due, of any type, of a stored tenant or of one that is not stored (T9),
\* fresh or already retried; a Publish job names the scheduled post sp1 of
\* tenant T1 or a post that does not exist (sp9).  A second job may wait
\* behind it.  call keeps the Ack or Fail call Process made last
Payloads == {"sp1", "sp9"}

RetriesSeen == {0, 2, 3}

ClaimKinds ==
    {[brandID |-> b, type |-> ty, status |-> StatusPending, retries |-> r,
      nextRunAt |-> 0, payload |-> pl,
      error |-> IF r = 0 THEN ErrNone ELSE ErrOp] :
        b \in JobBrands, ty \in JobTypes, r \in RetriesSeen,
        pl \in Payloads \cup {""}}

FoundKinds ==
    {k \in ClaimKinds : (k.type = JobTypePublish) = (k.payload # "")}

InitProcess ==
    /\ now = 0
    /\ \E k \in FoundKinds :
         jobs \in {{WithId(k, 1)},
                   Enqueue({WithId(k, 1)}, 2, "T1", JobTypeSync, 0, "", 0)}
    /\ nextId = 3
    /\ wpc = [w \in Workers |-> "idle"]
    /\ wjob = [w \in Workers |-> NoJob]
    /\ spc = "idle"
    /\ sTodo = {}
    /\ sCur = NoCur
    /\ sPosts = {}
    /\ sPost = ""
    /\ sErr = FALSE
    /\ ackArg = 0
    /\ call = NoCall
    /\ quit = FALSE
    /\ execs = [i \in 1..MaxJobs |-> 0]
    /\ published = [p \in PostIds |-> 0]
    /\ history = [b \in Brands |-> <<>>]
    /\ brands = Brands
    /\ posts = [p \in PostIds |-> [status |-> PostScheduled, scheduledAt |-> 0]]
    /\ triggers = {}

NextProcess ==
    \/ \E w \in MainWorkers : DequeueSelect(w)
    \/ \E w \in MainWorkers : DequeueCommit(w)
    \/ \E w \in MainWorkers : DequeueError(w)
    \/ \E w \in MainWorkers : ProcessCall(w)
    \/ \E d \in TimeSteps : Advance(d, MaxRetryTime)

SpecProcess == InitProcess /\ [][NextProcess]_vars

\* ------------------------------------------------------------- properties
Outstanding(b, jobType) ==
    {j \in jobs : /\ j.brandID = b
                  /\ j.type = jobType
                  /\ j.status \in {StatusPending, StatusRunning}}

\* C1: under every interleaving of the Dequeue calls of the Workers, no job
\* is held as claimed by two Workers at once: a Worker that was returned a
\* job is the only one holding it, no other Worker holds a read copy of it
\* that it could still commit, and the job is stored as Running.
AtMostOneClaim ==
    \A w \in Workers :
        wpc[w] = "claimed" =>
            /\ \A o \in Workers \ {w} : wpc[o] # "idle" => wjob[o].id # wjob[w].id
            /\ \E j \in jobs : j.id = wjob[w].id /\ j.status = StatusRunning

\* both Workers polled the same queue and each was returned a job
TwoWorkersClaimed ==
    /\ \A w \in Workers : wpc[w] = "claimed"
    /\ \A w \in Workers : \A o \in Workers \ {w} : wjob[o].id # wjob[w].id

\* C2: a job whose operation fails on every execution goes back to Pending
\* exactly 3 times (retries 0, 1, 2, 3, one execution for each), becomes
\* Failed on the failure seen with retries = 3, that is after 4 executions,
\* and no Worker holds it from then on, however much time passes.
BoundedRetry ==
    /\ \A j \in jobs :
         /\ j.retries <= 3
         /\ j.status = StatusPending => execs[j.id] = j.retries
         /\ (j.status = StatusFailed /\ j.error = ErrOp) =>
                (j.retries = 3 /\ execs[j.id] = 4)
    /\ \A w \in Workers : \A j \in jobs :
         (wpc[w] # "idle" /\ wjob[w].id = j.id) => j.status # StatusFailed

\* a job failed for good after its 4th execution, and a retry delay has
\* passed since
RetriesExhausted ==
    \E j \in jobs : /\ j.status = StatusFailed
                    /\ j.error = ErrOp
                    /\ j.retries = 3
                    /\ execs[j.id] = 4
                    /\ now >= j.nextRunAt + RetryBackoff

\* C3: every scheduled post is pushed live by a successful Social.Post at
\* most once, retried Publish jobs included.
PublishedAtMostOnce == \A p \in PostIds : published[p] <= 1

\* C4: with one Scheduler, the Worker and the on-demand run trigger, each
\* tenant has at most one Cycle job (type run) in Pending or Running state.
AtMostOneCycleJob ==
    \A b \in Brands : Cardinality(Outstanding(b, JobTypeRun)) <= 1

\* C5: after a SyncAllBrands pass that met no store error, every tenant of
\* the listing has exactly one outstanding Cycle job, whatever other jobs it
\* has.  Stated for the passes that end before any Cycle job can be due
\* (every delay of EnsureScheduled is at least CatchUpDelay), so that no
\* Cycle job was claimed or completed during the pass.
ExactlyOneCycleJobAfterPass ==
    (spc = "sync" /\ sTodo = {} /\ ~sErr /\ now < CatchUpDelay) =>
        \A b \in brands : Cardinality(Outstanding(b, JobTypeRun)) = 1

\* the Worker w is returned a job by this step (Dequeue commits)
Claims(w) == wpc[w] = "selected" /\ wpc'[w] = "claimed"

\* the Worker w ends Process for the job it holds by this step
Resolves(w, jobID) == wpc[w] = "claimed" /\ wjob[w].id = jobID /\ wpc'[w] = "idle"

\* C6: every status change of a stored job is Pending to Running (by a
\* Dequeue), Running to deleted (Ack), Running to Pending (Fail with retry)
\* or Running to Failed (Fail without retry), the last three by the Worker
\* holding the job; a new job is stored Pending; no job is stored with a
\* status other than Pending, Running or Failed; and a job that is returned
\* by Dequeue was Pending, so a Running job is never claimed again.
StatusTransitions ==
    [][ /\ \A j \in jobs :
             IF j.id \notin Ids(jobs')
             THEN /\ j.status = StatusRunning
                  /\ \E w \in Workers : Resolves(w, j.id)
             ELSE LET k == Row(jobs', j.id)
                  IN k.status # j.status =>
                       \/ /\ j.status = StatusPending
                          /\ k.status = StatusRunning
                          /\ \E w \in Workers : Claims(w) /\ wjob'[w].id = j.id
                       \/ /\ j.status = StatusRunning
                          /\ k.status \in {StatusPending, StatusFailed}
                          /\ \E w \in Workers : Resolves(w, j.id)
        /\ \A k \in jobs' : k.id \notin Ids(jobs) => k.status = StatusPending
        /\ \A k \in jobs' :
             k.status \in {StatusPending, StatusRunning, StatusFailed}
        /\ \A w \in Workers :
             Claims(w) => \E j \in jobs : /\ j.id = wjob'[w].id
                                          /\ j.status = StatusPending
      ]_vars

\* one job went Running to Failed, another Running to Pending
RetriedAndFailedJobs ==
    /\ \E j \in jobs : j.status = StatusFailed
    /\ \E k \in jobs : k.status = StatusPending /\ k.retries > 0

\* C7: Failed is absorbing: no step changes a field of a Failed job or
\* deletes it, and no Worker reads it or is returned it by Dequeue.
FailedIsAbsorbing ==
    [][ \A j \in jobs :
          j.status = StatusFailed =>
              /\ j \in jobs'
              /\ \A w \in Workers : wjob'[w].id # j.id
      ]_vars

\* a Worker was returned a job although a Failed job of an earlier or equal
\* nextRunAt is stored and due
ClaimedPastFailedJob ==
    \E w \in Workers : \E j \in jobs :
        /\ wpc[w] = "claimed"
        /\ j.status = StatusFailed
        /\ j.nextRunAt <= wjob[w].nextRunAt
        /\ j.nextRunAt <= now

\* C8: a job returned by Dequeue was Pending with nextRunAt <= now just
\* before the claim; after it the job is stored as Running, nothing else of
\* the table changed, and the returned copy has status Running and the
\* stored retries and payload.
DequeueReturnsDuePending ==
    [][ \A w \in Workers :
          Claims(w) =>
              \E j \in jobs :
                  /\ j.id = wjob'[w].id
                  /\ j.status = StatusPending
                  /\ j.nextRunAt <= now
                  /\ jobs' = (jobs \ {j}) \cup {[j EXCEPT !.status = StatusRunning]}
                  /\ wjob'[w] = [j EXCEPT !.status = StatusRunning]
      ]_vars

\* a retried Publish job is returned: the copy carries retries and payload
RetriedPublishClaimed ==
    \E w \in Workers : /\ wpc[w] = "claimed"
                       /\ wjob[w].retries > 0
                       /\ wjob[w].payload # ""
                       /\ wjob[w] \in jobs

\* C9: the job Dequeue returns has the least nextRunAt of the due Pending
\* jobs: no due Pending job with a strictly smaller nextRunAt is left behind.
DequeueOldestFirst ==
    [][ \A w \in Workers :
          Claims(w) =>
              \A o \in jobs :
                  (o.status = StatusPending /\ o.nextRunAt <= now) =>
                      wjob'[w].nextRunAt <= o.nextRunAt
      ]_vars

\* a job is returned while a due Pending job of a later nextRunAt waits
ClaimedBeforeLaterJob ==
    \E w \in Workers : \E o \in jobs :
        /\ wpc[w] = "claimed"
        /\ o.status = StatusPending
        /\ o.nextRunAt <= now
        /\ o.nextRunAt > wjob[w].nextRunAt

\* C10: Ack(id) removes the job with that id and leaves every other job as
\* it is; on an id that is not stored it changes nothing, so a second
\* Ack(id) leaves the table the first one left.
AckRemovesOnlyThatJob ==
    [][ /\ jobs' = {j \in jobs : j.id # ackArg'}
        /\ ackArg' \notin Ids(jobs) => jobs' = jobs
        /\ Ack(jobs', ackArg') = jobs'
      ]_vars

\* a stored job was acknowledged and another job is still stored
AckedOneOfSeveral ==
    /\ ackArg \in 1..MaxJobs
    /\ ackArg \notin Ids(jobs)
    /\ jobs # {}

BackoffMonotone ==
    [][ /\ \A j \in jobs : \A k \in jobs' :
             k.id = j.id =>
                 /\ k.nextRunAt >= j.nextRunAt
                 /\ (j.status = StatusRunning /\ k.status = StatusPending) =>
                        /\ k.nextRunAt = now + 5 * 60
                        /\ k.nextRunAt > j.nextRunAt
        /\ \A w \in Workers :
             Claims(w) => \A j \in jobs :
                             j.id = wjob'[w].id => j.nextRunAt <= now
      ]_vars

\* a job is returned for its third execution, two backoffs after its first
RetriedTwiceClaimed ==
    \E w \in Workers : /\ wpc[w] = "claimed"
                       /\ wjob[w].retries = 2
                       /\ wjob[w].nextRunAt >= 2 * 5 * 60
                       /\ wjob[w].nextRunAt <= now

\* C13: Fail(id, message, retry = false) sets the job Failed and its error to
\* message; retries, nextRunAt, brandID, type and payload of the job, and
\* every other job, are as before, and no job is added or removed.
FailPermanentEffect ==
    [][ (call'.op = "Fail" /\ ~call'.retry) =>
          /\ Ids(jobs') = Ids(jobs)
          /\ \A j \in jobs :
               IF j.id = call'.id
               THEN [id |-> j.id, brandID |-> j.brandID, type |-> j.type,
                     status |-> StatusFailed, retries |-> j.retries,
                     nextRunAt |-> j.nextRunAt, payload |-> j.payload,
                     error |-> call'.msg] \in jobs'
               ELSE j \in jobs'
      ]_vars

\* a publish job at retries 2 was failed for good at a time that is not its
\* nextRunAt: it keeps retries, nextRunAt and payload, next to another job
FailedForGood ==
    /\ call.op = "Fail"
    /\ ~call.retry
    /\ \E j \in jobs : /\ j.id = call.id
                       /\ j.status = StatusFailed
                       /\ j.error = call.msg
                       /\ j.retries = 2
                       /\ j.nextRunAt # now
                       /\ j.payload = "sp1"
    /\ \E o \in jobs : o.id # call.id

\* C14: HasPendingJob(brandID) returns true if and only if a job of that
\* brandID is stored with status Pending or Running, whatever its type and
\* nextRunAt; Failed jobs and jobs of other tenants do not count.
HasPendingJobResult ==
    call.op = "HasPendingJob" =>
        (call.result <=>
            Cardinality({j \in jobs :
                           /\ j.brandID = call.brand
                           /\ j.status \in {StatusPending, StatusRunning}}) > 0)

\* true was returned for a tenant whose only outstanding job is a publish
\* job that is not due, while the other rows are Failed or of another tenant
TrueForPublishJobNotDue ==
    /\ call.op = "HasPendingJob"
    /\ call.result
    /\ Cardinality(jobs) > 1
    /\ \A j \in jobs :
         (j.brandID = call.brand /\ j.status # StatusFailed) =>
             (j.type = JobTypePublish /\ j.nextRunAt > now)

\* C15: Enqueue(brandID, type, delay, payload) adds exactly one job, Pending
\* with retries 0, nextRunAt = now + delay and the id the AUTOINCREMENT
\* sequence holds, which is above every id assigned before (the sequence never
\* goes back, so the id of a deleted job is not reused); a duplicate of a
\* stored job is added like any other, and every stored job is left as it is.
EnqueueEffect ==
    [][ /\ nextId' >= nextId
        /\ \A j \in jobs' : j.id < nextId'
        /\ call'.op = "Enqueue" =>
             LET r == [id |-> nextId, brandID |-> call'.brand,
                       type |-> call'.type, status |-> StatusPending,
                       retries |-> 0, nextRunAt |-> now + call'.delay,
                       payload |-> call'.payload, error |-> ErrNone]
             IN /\ jobs' = jobs \cup {r}
                /\ Cardinality(jobs') = Cardinality(jobs) + 1
                /\ \A j \in jobs : j.id < r.id
                /\ nextId' > nextId
      ]_vars

\* the same Enqueue was called twice on a table from which the job of the
\* highest id had been deleted: two jobs that differ in nothing but the id
EnqueuedDuplicate ==
    /\ call.op = "Enqueue"
    /\ MaxJobs \notin Ids(jobs)
    /\ \E a, b \in jobs : /\ a.id = MaxJobs + 1
                          /\ b.id = MaxJobs + 2
                          /\ b = [a EXCEPT !.id = b.id]

\* C16: every stored job has 0 <= retries <= 3, before and after every step,
\* and the retries of a job change only by +1, in the step in which the
\* Worker holding the job puts it back from Running to Pending (Fail with
\* retry): not at a claim, not at an Ack or a permanent failure, not when
\* Dequeue returns an error.
RetriesBoundedAndCounted ==
    [][ /\ \A j \in jobs \cup jobs' : j.retries >= 0 /\ j.retries <= 3
        /\ \A j \in jobs : \A k \in jobs' :
             (k.id = j.id /\ k.retries # j.retries) =>
                 /\ k.retries = j.retries + 1
                 /\ j.status = StatusRunning
                 /\ k.status = StatusPending
                 /\ \E w \in Workers : Resolves(w, j.id)
        /\ \A w \in Workers :
             (wpc[w] = "selected" /\ wpc'[w] # "selected") =>
                 \A j \in jobs : \A k \in jobs' :
                     k.id = j.id => k.retries = j.retries
      ]_vars

\* a job at retries 3 is held by the Worker, next to a job that failed for
\* good at retries 0
ClaimedAtThreeRetries ==
    /\ \E w \in Workers : \E j \in jobs : /\ wpc[w] = "claimed"
                                          /\ j.id = wjob[w].id
                                          /\ j.retries = 3
                                          /\ j.status = StatusRunning
    /\ \E f \in jobs : f.status = StatusFailed /\ f.retries = 0

\* C17: a call of EnsureScheduled for a tenant that has a Pending or Running
\* job enqueues nothing and changes nothing of the stores; a call for a tenant
\* that has none enqueues exactly one Cycle job when no store call fails, and
\* none otherwise; so successive calls with no Worker step in between leave
\* one enqueued job, not two.
EnsureScheduledIdempotent ==
    [][ /\ \A b \in Brands :
             HasPendingJob(jobs, b) =>
                 {j \in jobs' : j.brandID = b} = {j \in jobs : j.brandID = b}
        /\ (call.op = "EnsureScheduled" /\ call.result) =>
               /\ jobs' = jobs
               /\ nextId' = nextId
               /\ history' = history
               /\ posts' = posts
        /\ (call.op = "EnsureScheduled" /\ spc = "sync" /\ spc' = "idle") =>
               LET new == {j \in jobs : j.id >= call.id}
               IN /\ Cardinality(new) <= 1
                  /\ \A j \in new : /\ j.brandID = call.brand
                                    /\ j.type = JobTypeRun
                                    /\ j.status = StatusPending
                  /\ call.result => new = {}
                  /\ (~call.result /\ ~sErr) => Cardinality(new) = 1
                  /\ ~sErr => HasPendingJob(jobs, call.brand)
        /\ \A b \in Brands :
             Cardinality({j \in jobs' : /\ j.brandID = b
                                        /\ j.status \in {StatusPending,
                                                          StatusRunning}}) <= 1
      ]_vars

\* a call for a tenant without history returned having enqueued nothing,
\* the Cycle job the call before it enqueued being the tenant's only job
SecondCallEnqueuedNothing ==
    /\ call.op = "EnsureScheduled"
    /\ spc = "idle"
    /\ ~sErr
    /\ call.result
    /\ nextId = call.id
    /\ \E j \in jobs : /\ j.id = call.id - 1
                       /\ j.brandID = call.brand
                       /\ j.type = JobTypeRun
                       /\ j.nextRunAt = now + WarmUpDelay
                       /\ \A o \in jobs : o.brandID = call.brand => o = j

PublishJobs(rows, p) ==
    {j \in rows : j.type = JobTypePublish /\ j.payload = p}

\* the Publish jobs for the post p that this step adds
Added(p) == {j \in PublishJobs(jobs', p) : j.id \notin Ids(jobs)}

\* C18, as stated: a due Approved post is matched in at most one pass and
\* yields one Publish job; no later pass enqueues another one for it, even
\* while the first job is still in the queue.
OnePublishJobPerPost ==
    \A p \in PostIds : Cardinality(PublishJobs(jobs, p)) <= 1

\* C18, as the code has it: a pass matches a post only while the post is
\* Approved and due, and enqueues a Publish job only for a post it matched,
\* one job, with the post's id as payload, just before its attempt to flip
\* the post to Scheduled; a post that has left Approved never returns to it.
\* So once a flip has succeeded no later pass matches the post or enqueues a
\* job for it, whether or not the Worker has processed the first job.
PublishDeduplicatedOnceFlipped ==
    [][ \A p \in PostIds :
          /\ (p \in sPosts' /\ p \notin sPosts) =>
                 /\ posts[p].status = PostApproved
                 /\ posts[p].scheduledAt <= now
          /\ Added(p) # {} =>
                 /\ p \in sPosts
                 /\ spc = "posts"
                 /\ spc' = "flip"
                 /\ sPost' = p
                 /\ Cardinality(Added(p)) = 1
                 /\ \A j \in Added(p) :
                        j.brandID = PostBrand(p) /\ j.status = StatusPending
          /\ posts[p].status # PostApproved => posts'[p].status # PostApproved
          /\ (posts[p].status # PostApproved /\ spc \in {"idle", "sync", "enqueue"}) =>
                 /\ p \notin sPosts'
                 /\ Added(p) = {}
      ]_vars

\* a later pass is about to look for due posts while the post is Scheduled
\* and its Publish job is still Pending
LaterPassBeforePublish ==
    \E p \in PostIds : /\ posts[p].status = PostScheduled
                       /\ \E j \in PublishJobs(jobs, p) : j.status = StatusPending
                       /\ spc = "sync"
                       /\ sTodo = {}

\* the interval EnsureScheduled computes with: a value <= 0 gives way to the
\* default
EffectiveHours(b) ==
    IF IntervalHours(b) <= 0 THEN DefaultIntervalHours ELSE IntervalHours(b)

MostRecent(h) == CHOOSE t \in {h[i] : i \in DOMAIN h} : \A i \in DOMAIN h : h[i] <= t

\* C20: for a tenant with history, the target time EnsureScheduled computes
\* the delay from is the creation time of the tenant's most recent post plus
\* the interval, in whatever order the Store returned the history and however
\* many posts it holds.
TargetFromMostRecentPost ==
    [][ (spc = "sync" /\ spc' = "enqueue" /\ ~sErr' /\ history[sCur'.brand] # <<>>) =>
            LET b == sCur'.brand
                due == MostRecent(history[b]) + EffectiveHours(b) * SecondsPerHour - now
            IN sCur'.delay = IF due < 0 THEN CatchUpDelay ELSE due
      ]_vars

\* C21: a construction failure is permanent.  When the factory fails for the
\* job a Worker holds (as it does for a tenant that is not stored), Process
\* dispatches no operation and ends with Fail(id, err, retry = false),
\* whatever the job's retries are; when that call succeeds the stored job is
\* Failed with the factory's error, its retries and nextRunAt as they were,
\* and no other job is touched.
ConstructionFailurePermanent ==
    [][ \A w \in Workers :
          (wpc[w] = "claimed" /\ wpc'[w] = "idle") =>
              LET job == wjob[w]
                  row == Row(jobs, job.id)
              IN /\ job.brandID \notin brands =>
                        (call'.op = "Fail" /\ call'.msg = ErrFactory)
                 /\ (call'.op = "Fail" /\ call'.msg = ErrFactory) =>
                        /\ call'.id = job.id
                        /\ call'.retry = FALSE
                        /\ call'.type = ""
                        /\ execs'[job.id] = execs[job.id]
                        /\ published' = published
                        /\ history' = history
                        /\ posts' = posts
                        /\ call'.result =>
                               jobs' = (jobs \ {row}) \cup
                                       {[row EXCEPT !.status = StatusFailed,
                                                    !.error = ErrFactory]}
      ]_vars

\* the job of a tenant that is not stored was claimed for the first time with
\* its whole retry budget left, and is Failed with retries 0
UnknownTenantFailedAtOnce ==
    /\ call.op = "Fail"
    /\ call.msg = ErrFactory
    /\ call.result
    /\ \E j \in jobs : /\ j.id = call.id
                       /\ j.brandID \notin brands
                       /\ j.status = StatusFailed
                       /\ j.retries = 0
                       /\ execs[j.id] = 0

\* the Worker w returns from Process by this step
Processed(w) == wpc[w] = "claimed" /\ wpc'[w] = "idle"

\* C22 as stated: for every claimed job Process makes one resolution call,
\* Ack(id) if and only if the dispatched operation succeeded, and otherwise
\* Fail(id, err, retry) with retry = (retries of the claimed copy < 3).
OneResolutionRetryWhileBudget ==
    [][ \A w \in Workers :
          Processed(w) =>
              /\ call'.op \in {"Ack", "Fail"}
              /\ call'.id = wjob[w].id
              /\ call'.op = "Ack" => call'.type = wjob[w].type
              /\ call'.op = "Fail" =>
                     call'.retry = (wjob[w].retries < MaxRetries)
      ]_vars

\* C22, amended: for every claimed job Process makes one resolution call for
\* that job.  It is Ack(id) only if an operation was dispatched and succeeded
\* (a Publish job's post is then Published, a Cycle job's post saved); it is
\* Fail(id, err, retry = (retries of the claimed copy < 3)) when the
\* dispatched operation failed, and Fail(id, err, retry = false) when no
\* operation was dispatched because the construction failed.  The queue
\* changes by that one call or, when the call returns an error, not at all.
ExactlyOneResolution ==
    [][ \A w \in Workers :
          Processed(w) =>
              LET job == wjob[w]
              IN /\ call'.op \in {"Ack", "Fail"}
                 /\ call'.id = job.id
                 /\ call'.op = "Ack" =>
                        /\ call'.type = job.type
                        /\ job.type = JobTypePublish =>
                               /\ posts'[job.payload].status = PostPublished
                               /\ published'[job.payload] > 0
                        /\ job.type = JobTypeRun =>
                               history'[job.brandID] = <<now>>
                 /\ (call'.op = "Fail" /\ call'.type # "") =>
                        /\ call'.type = job.type
                        /\ call'.retry = (job.retries < MaxRetries)
                        /\ call'.msg \in {ErrOp, ErrNotFound}
                        /\ posts' = posts
                 /\ (call'.op = "Fail" /\ call'.type = "") =>
                        /\ call'.retry = FALSE
                        /\ call'.msg = ErrFactory
                 /\ jobs' = IF ~call'.result THEN jobs
                            ELSE IF call'.op = "Ack" THEN Ack(jobs, job.id)
                            ELSE Fail(jobs, job.id, call'.msg, call'.retry, now)
      ]_vars

\* a job claimed with retries 2 had its operation fail and was put back for
\* its last attempt
FailedOperationRetried ==
    /\ call.op = "Fail"
    /\ call.type # ""
    /\ call.retry
    /\ call.result
    /\ \E j \in jobs : /\ j.id = call.id
                       /\ j.status = StatusPending
                       /\ j.retries = MaxRetries
                       /\ j.nextRunAt = now + RetryBackoff

\* the job's payload is the id of no scheduled post of the job's own tenant
Dangling(job) ==
    /\ job.type = JobTypePublish
    /\ job.payload \notin {p \in DOMAIN posts : PostBrand(p) = job.brandID}

\* C23: a Publish job whose payload is the id of no scheduled post of its own
\* tenant (an id of another tenant's post included) publishes nothing and is
\* never acknowledged.  When its operation is dispatched and the tenant's
\* posts are listed, it fails with the not-found error, and with that error
\* it goes back to Pending with one more retry while its retries are below 3
\* and is marked Failed when they are 3, so after 4 executions at most.
DanglingPublishFails ==
    [][ \A w \in Workers :
          (Processed(w) /\ Dangling(wjob[w])) =>
              LET job == wjob[w]
                  row == Row(jobs, job.id)
              IN /\ call'.op = "Fail"
                 /\ published' = published
                 /\ posts' = posts
                 /\ history' = history
                 /\ call'.type # "" =>
                        /\ call'.msg \in {ErrNotFound, ErrOp}
                        /\ call'.retry = (job.retries < MaxRetries)
                 /\ (call'.msg = ErrNotFound /\ call'.result) =>
                        /\ execs'[job.id] = execs[job.id] + 1
                        /\ execs'[job.id] <= MaxRetries + 1
                        /\ jobs' = (jobs \ {row}) \cup
                             {IF job.retries < MaxRetries
                              THEN [row EXCEPT !.status = StatusPending,
                                               !.retries = job.retries + 1,
                                               !.nextRunAt = now + RetryBackoff,
                                               !.error = ErrNotFound]
                              ELSE [row EXCEPT !.status = StatusFailed,
                                               !.error = ErrNotFound]}
      ]_vars

\* the Publish job of tenant T2 that names the post of tenant T1 has gone
\* through its 4 executions and is Failed with the not-found error, and the
\* post was not published
OtherTenantsPostNotFound ==
    /\ \E j \in jobs : /\ j.brandID = "T2"
                       /\ j.type = JobTypePublish
                       /\ j.payload \in DOMAIN posts
                       /\ j.status = StatusFailed
                       /\ j.error = ErrNotFound
                       /\ j.retries = MaxRetries
                       /\ execs[j.id] = MaxRetries + 1
    /\ \A p \in PostIds : published[p] = 0

\* C24: a tick of the Worker loop in which Dequeue returns no job or an error
\* changes no job: no row is added, deleted or changed in status, retries or
\* nextRunAt, nothing is executed or published, and the Worker is back at the
\* top of its loop to poll again; so it is after any number of such ticks.
IdleTickChangesNothing ==
    [][ call' # call =>
            /\ call'.op = "Dequeue"
            /\ jobs' = jobs
            /\ nextId' = nextId
            /\ execs' = execs
            /\ published' = published
            /\ posts' = posts
            /\ history' = history
            /\ \E w \in MainWorkers : wpc'[w] = "idle" /\ wjob'[w] = NoJob
      ]_vars

\* MaxTicks ticks in a row ended without a job, the last with an error, and
\* the due job is still Pending with its retries at 0
PolledInVain ==
    /\ call.op = "Dequeue"
    /\ call.id = MaxTicks
    /\ call.msg = "error"
    /\ \E j \in jobs : /\ j.status = StatusPending
                       /\ j.nextRunAt <= now
                       /\ j.retries = 0
    /\ \A i \in 1..MaxJobs : execs[i] = 0

\* C25: a job that a Worker held as claimed when the process crashed is
\* stored Running in every later state, with every field as it was at the
\* crash: after the restart no Dequeue returns it, so no Worker ever holds
\* it, and no Scheduler, Worker or trigger operation changes or deletes it.
OrphanStaysRunning ==
    [][ (call'.op = "Crash" /\ call'.id # 0) =>
            \E j \in jobs' : /\ j.id = call'.id
                             /\ j.status = StatusRunning
                             /\ j \in jobs
                             /\ \A w \in Workers : wjob'[w].id # j.id
      ]_vars

\* after the restart the Worker has claimed another job while the orphaned
\* one, due all along, is still Running
ClaimedPastOrphan ==
    /\ call.op = "Crash"
    /\ \E j \in jobs : /\ j.id = call.id
                       /\ j.status = StatusRunning
                       /\ j.nextRunAt <= now
    /\ \E w \in Workers : wpc[w] = "claimed" /\ wjob[w].id # call.id

\* C26: once the shutdown signal has been raised, the Scheduler loop begins
\* no new pass (no SyncAllBrands, no CheckScheduledPosts of a new pass) and
\* the Worker loop begins no new tick (no Dequeue), while a dispatch that is
\* in flight is not cut off: the Worker stops only from the top of its loop.
NoNewTickAfterShutdown ==
    [][ quit =>
            /\ ~(spc = "idle" /\ spc' # "idle")
            /\ \A w \in Workers :
                 /\ ~(wpc[w] = "idle" /\ wpc'[w] = "selected")
                 /\ wpc'[w] = "stopped" => wpc[w] \in {"idle", "stopped"}
      ]_vars

\* C27: a request to the on-demand trigger that is answered accepted has
\* enqueued exactly one job: Pending, of the requested type (Cycle for run,
\* Sync for sync), of the requested tenant, due now (zero delay), with empty
\* payload and retries 0, whatever jobs the tenant already has; the job has
\* not been executed or claimed when the answer is given.  A request whose
\* tenant lookup fails, as it does for a tenant that is not stored, is not
\* accepted and enqueues nothing, and so does one whose Enqueue fails.
TriggerEnqueuesOne ==
    [][ call' # call =>
          LET new == [id |-> nextId, brandID |-> call'.brand,
                      type |-> IF call'.op = "TriggerRun" THEN JobTypeRun
                               ELSE JobTypeSync,
                      status |-> StatusPending, retries |-> 0,
                      nextRunAt |-> now, payload |-> "", error |-> ErrNone]
          IN /\ call'.op \in {"TriggerRun", "TriggerSync"}
             /\ call'.result = (call'.msg = "accepted")
             /\ call'.brand \notin brands =>
                    (~call'.result /\ call'.msg = "brand not found")
             /\ call'.result =>
                    /\ call'.brand \in brands
                    /\ new \notin jobs
                    /\ jobs' = jobs \cup {new}
                    /\ Cardinality(jobs') = Cardinality(jobs) + 1
                    /\ execs'[new.id] = 0
                    /\ \A w \in Workers : wjob'[w].id # new.id
             /\ ~call'.result => (jobs' = jobs /\ nextId' = nextId)
      ]_vars

\* a sync request was accepted for a tenant that already had a job waiting:
\* the new Sync job is Pending beside it
SyncAcceptedBesideOtherJob ==
    /\ call.op = "TriggerSync"
    /\ call.result
    /\ \E j \in jobs : /\ j.id = call.id
                       /\ j.type = JobTypeSync
                       /\ j.status = StatusPending
                       /\ \E o \in jobs : /\ o.id # j.id
                                          /\ o.brandID = j.brandID
                                          /\ o.status = StatusPending

\* C28: the write of a Dequeue that sets a job to Running takes effect only
\* on a job that is stored Pending at the moment of the write.  From the read
\* of a claimer to its write or its error the job it read is stored as it was
\* read; the write changes that one row from Pending to Running and nothing
\* else; and a job that is stored Running or Failed, or that was deleted, is
\* never set to Running by any claimer.
ClaimWritesOnlyPending ==
    [][ /\ \A w \in Workers :
             wpc[w] = "selected" =>
                 \E j \in jobs : /\ j.status = StatusPending
                                 /\ wjob[w] = [j EXCEPT !.status = StatusRunning]
        /\ \A w \in Workers :
             Claims(w) =>
                 \E j \in jobs :
                     /\ j.id = wjob[w].id
                     /\ j.status = StatusPending
                     /\ jobs' = (jobs \ {j}) \cup
                                {[j EXCEPT !.status = StatusRunning]}
        /\ \A j \in jobs :
             j.status # StatusPending =>
                 \A k \in jobs' :
                     (k.id = j.id /\ k.status = StatusRunning) => k = j
        /\ \A k \in jobs' :
             k.status = StatusRunning => k.id \in Ids(jobs)
      ]_vars

\* two claimers have read the same Pending job and neither has written yet
TwoClaimersReadSameJob ==
    \E w \in Workers : \E o \in Workers \ {w} :
        /\ wpc[w] = "selected"
        /\ wpc[o] = "selected"
        /\ wjob[w].id = wjob[o].id

\* C29: when Process returns for a claimed job, the job is no longer stored
\* Running: it was deleted, put back to Pending or marked Failed, also when
\* the Ack or Fail call that resolves it returned an error.
ResolvedWhenProcessReturns ==
    [][ \A w \in Workers :
          Processed(w) =>
              \A k \in jobs' : k.id = wjob[w].id => k.status # StatusRunning
      ]_vars

\* C30: every scheduled post that is Approved and due is Published at some
\* later time, when the Scheduler and the Worker keep ticking and the publish
\* operation succeeds whenever it is invoked.
ApprovedDuePostPublished ==
    \A p \in PostIds :
        (posts[p].status = PostApproved /\ posts[p].scheduledAt <= now)
            ~> (posts[p].status = PostPublished)

\* a Publish job with the post's id as payload is stored, or one was and the
\* Worker removed it: Ack is the only removal, and Process calls it for a
\* Publish job only after Social.Post succeeded for the post
PublishJobExistsOrExisted(p) ==
    \/ \E j \in jobs : j.type = JobTypePublish /\ j.payload = p
    \/ published[p] > 0

\* C31: every ScheduledPost in status Scheduled has a Publish job carrying
\* its id that exists or existed in the JobStore: the flip to Scheduled comes
\* only after the job was added.
ScheduledPostHasPublishJob ==
    \A p \in PostIds :
        posts[p].status = PostScheduled => PublishJobExistsOrExisted(p)

\* C32: the status of a ScheduledPost only moves forward: once a post is
\* Published no step, of the Scheduler in particular, changes it back to
\* Scheduled or Approved.
PublishedStaysPublished ==
    [][ \A p \in PostIds :
          posts[p].status = PostPublished => posts'[p].status = PostPublished
      ]_vars

\* C33: a Publish job is removed by Ack only after its ScheduledPost was
\* posted, saved to the tenant's history and flipped to Published, all in the
\* Process that acknowledges it; a Process in which one of the three steps
\* fails ends with Fail, which leaves the job in the table and the post's
\* status as it was.
AckOnlyAfterPublished ==
    [][ \A w \in Workers :
          (Processed(w) /\ wjob[w].type = JobTypePublish) =>
              LET job == wjob[w]
                  p   == job.payload
                  done == /\ p \in DOMAIN posts
                          /\ PostBrand(p) = job.brandID
                          /\ published'[p] > 0
                          /\ published[p] = 0 => published'[p] = 1
                          /\ history'[job.brandID] = <<now>>
                          /\ posts'[p].status = PostPublished
              IN /\ call'.op \in {"Ack", "Fail"}
                 /\ call'.id = job.id
                 /\ call'.op = "Ack" => done
                 /\ job.id \notin Ids(jobs') => (call'.op = "Ack" /\ done)
                 /\ call'.op = "Fail" =>
                        /\ posts' = posts
                        /\ job.id \in Ids(jobs')
                 /\ (p \in DOMAIN posts /\ posts'[p].status # PostPublished) =>
                        call'.op = "Fail"
      ]_vars

\* a Publish job whose first execution posted but failed afterwards was
\* retried, and its second execution went through all three steps: the job
\* is acknowledged and gone, the post is Published (and was posted twice)
PublishAckedAfterRetry ==
    /\ call.op = "Ack"
    /\ call.type = JobTypePublish
    /\ call.result
    /\ call.id \notin Ids(jobs)
    /\ posts[call.payload].status = PostPublished
    /\ published[call.payload] = 2
    /\ history[call.brand] = <<now>>

RunningJobsWithinWorkers ==
    Cardinality({j \in jobs : j.status = StatusRunning})
        <= Cardinality(MainWorkers)

\* C36: Scheduler fault isolation.  A pass whose ListAllBrands fails visits
\* no tenant and its SyncAllBrands enqueues nothing, and the
\* CheckScheduledPosts of that pass runs all the same; a HasPendingJob error
\* for one tenant enqueues nothing for that tenant in this pass and leaves
\* every tenant not yet visited to be visited by EnsureScheduled.
SchedulerFaultIsolation ==
    /\ [](/\ (spc = "sync" /\ sTodo = {}) => ENABLED CheckScheduledPosts
          /\ spc = "sync" => \A b \in sTodo : ENABLED EnsureScheduledPass(b))
    /\ [][ /\ (spc = "idle" /\ spc' = "sync" /\ ~call'.result) =>
                /\ sTodo' = {}
                /\ jobs' = jobs
                /\ nextId' = nextId
           /\ (spc = "sync" /\ sTodo = {} /\ spc' # "sync") =>
                /\ ~call.result => nextId = call.id
                /\ \A j \in jobs : j.id >= call.id => j.brandID # call.brand
           /\ \A b \in Brands :
                (spc = "sync" /\ b \in sTodo /\ b \notin sTodo'
                              /\ call'.brand = b /\ call.brand # b) =>
                    /\ jobs' = jobs
                    /\ nextId' = nextId
                    /\ sTodo' = sTodo \ {b}
                    /\ spc' = "sync"
         ]_vars

\* in one pass HasPendingJob returned an error for tenant T1, and
\* EnsureScheduled is now at its Enqueue for tenant T2, which was still to
\* be visited
OtherTenantVisitedAfterError ==
    /\ call.op = "pass"
    /\ call.result
    /\ call.brand = "T1"
    /\ spc = "enqueue"
    /\ sCur.brand = "T2"
    /\ nextId = call.id

\* C37: separation of writers.  A step of the Scheduler or of the on-demand
\* trigger leaves every stored job as it is and adds at most one job; a step
\* of the Worker adds none; and a step that changes or removes a stored job
\* is a Worker's Dequeue (the claim) or the Ack or Fail that ends its Process.
WritersSeparated ==
    [][ /\ (schedVars' # schedVars \/ triggers' # triggers) =>
               /\ jobs \subseteq jobs'
               /\ Cardinality(jobs' \ jobs) <= 1
               /\ \A k \in jobs' \ jobs : k.id = nextId /\ k.status = StatusPending
        /\ workerVars' # workerVars =>
               /\ Ids(jobs') \subseteq Ids(jobs)
               /\ nextId' = nextId
        /\ \A j \in jobs \ jobs' :
               \E w \in Workers :
                   /\ wjob'[w].id = j.id \/ wjob[w].id = j.id
                   /\ Claims(w) \/ Processed(w)
      ]_vars

\* all three writers have written: the trigger added its run job, which the
\* Worker claimed and put back for a retry, and the Scheduler added the
\* Publish job
ThreeWritersWrote ==
    /\ triggers = {}
    /\ \E j \in jobs : /\ j.type = JobTypeRun
                       /\ j.nextRunAt = RetryBackoff
                       /\ j.retries = 1
    /\ \E k \in jobs : k.type = JobTypePublish /\ k.status = StatusPending

\* the Failed jobs of tenant b
FailedJobs(b) == {j \in jobs : j.brandID = b /\ j.status = StatusFailed}

\* C38: a Failed job does not block rescheduling.  No Failed job is ever
\* removed or changed, and whenever all the jobs of a tenant are Failed (n of
\* them, with an id left in the model's id sequence) a later EnsureScheduled
\* enqueues a fresh Cycle job for the tenant, Pending with retries 0, beside
\* the n Failed jobs: so a tenant whose cycle always fails collects one more
\* Failed job per Cycle job.
FailedJobDoesNotBlock ==
    /\ [][\A b \in Brands : FailedJobs(b) \subseteq jobs']_vars
    /\ \A b \in Brands : \A n \in 1..MaxJobs :
         (/\ b \in brands
          /\ Cardinality(FailedJobs(b)) = n
          /\ \A j \in jobs : j.brandID = b => j.status = StatusFailed
          /\ nextId <= MaxJobs)
            ~> (/\ Cardinality(FailedJobs(b)) = n
                /\ \E j \in jobs : /\ j.brandID = b
                                   /\ j.type = JobTypeRun
                                   /\ j.status = StatusPending
                                   /\ j.retries = 0
                                   /\ j.id = nextId - 1)

\* every Cycle job the tenant was given went through its four executions
\* and is retained as Failed: as many Failed jobs as the id sequence allows
FailedJobsPileUp ==
    /\ Cardinality(FailedJobs("T1")) = MaxJobs
    /\ \A j \in jobs : j.type = JobTypeRun /\ j.retries = MaxRetries
    /\ \A i \in 1..MaxJobs : execs[i] = MaxRetries + 1

\* the tenant b has a job stored as Running
RunningFor(b) == \E j \in jobs : j.brandID = b /\ j.status = StatusRunning

\* C39: while a tenant has a job that stays Running, every EnsureScheduled
\* call for the tenant is a no-op: the call returns after HasPendingJob and
\* changes no job; and once a crash has left a job Running, no later step of
\* the Scheduler adds a job for that job's tenant.
RunningJobBlocksScheduling ==
    [][ /\ \A b \in Brands :
             (/\ spc = "sync"
              /\ b \in sTodo
              /\ b \notin sTodo' \/ sCur'.brand = b
              /\ call' = call
              /\ RunningFor(b)) =>
                 /\ spc' = "sync"
                 /\ sCur' = sCur
                 /\ sTodo' = sTodo \ {b}
                 /\ jobs' = jobs
                 /\ nextId' = nextId
        /\ (call.op = "Crash" /\ call.id # 0 /\ schedVars' # schedVars) =>
               \A k \in jobs' : k.id \notin Ids(jobs) =>
                                    k.brandID # Row(jobs, call.id).brandID
      ]_vars

\* after a crash left the tenant's job Running, a whole SyncAllBrands met no
\* error, visited the tenant and enqueued nothing: the orphaned job is the
\* only job stored
PassSkippedTenantOfOrphan ==
    /\ call.op = "Crash"
    /\ call.id # 0
    /\ spc = "sync"
    /\ sTodo = {}
    /\ ~sErr
    /\ jobs # {}
    /\ \A j \in jobs : j.id = call.id /\ j.status = StatusRunning
====
